---- MODULE Spec2Model ----
(***************************************************************************)
(* Model of the homgarapi device layer: the helpers, the device classes    *)
(* and their status decoders (homgarapi/devices.py) and the two HomgarApi  *)
(* operations that build and update the device tree (homgarapi/api.py).    *)
(*                                                                         *)
(* Representation.                                                         *)
(*  - A Python str is a sequence of characters, each a string.             *)
(*  - An attribute value is a tuple: None is <<>>, an int n is <<n>>, a    *)
(*    bool b is <<b>>, and the float .1 * n is <<n, 10>> (the rational     *)
(*    n/10 whose nearest-or-adjacent double the code holds).               *)
(*  - An object is a function from its attribute names to their values;    *)
(*    an attribute the constructor never assigned is not in its DOMAIN.    *)
(*  - A call that can raise returns [exc |-> "" or the exception's name,   *)
(*    ...] together with the object as the call left it.                   *)
(***************************************************************************)
EXTENDS Integers, Sequences, FiniteSets, TLC

VARIABLES
    listing,    \* the device listing last handed to get_devices_for_home
    hubs,       \* the list get_devices_for_home returned last (<<>> before, and when it raised)
    op,         \* the operation that ran last: "init", "devices", "status", "parse", "temp"
    exc,        \* "" when the last operation returned, else the name of the exception it raised
    arg,        \* the last operation's other arguments
    trace,      \* get_device_status: the hub before the first record and after each record handled
    ret         \* the value a helper returned

vars == <<listing, hubs, op, exc, arg, trace, ret>>

----------------------------------------------------------------------------
(* Python values *)

None == <<>>
Some(v) == <<v>>

\* the float .1 * n
TimesTenth(n) == <<n, 10>>

\* A character of a str is written as a one-character string where a TLA+
\* string can hold it and as "U+" and its code point otherwise.

\* the decimal digits of ASCII
AsciiDigits == <<"0", "1", "2", "3", "4", "5", "6", "7", "8", "9">>

\* the other decimal digits: the characters \d matches and int() converts,
\* each row the digits zero to nine of one script
UnicodeDigits ==
    <<<<"U+0660", "U+0661", "U+0662", "U+0663", "U+0664", "U+0665", "U+0666", "U+0667", "U+0668", "U+0669">>,
      <<"U+06F0", "U+06F1", "U+06F2", "U+06F3", "U+06F4", "U+06F5", "U+06F6", "U+06F7", "U+06F8", "U+06F9">>,
      <<"U+07C0", "U+07C1", "U+07C2", "U+07C3", "U+07C4", "U+07C5", "U+07C6", "U+07C7", "U+07C8", "U+07C9">>,
      <<"U+0966", "U+0967", "U+0968", "U+0969", "U+096A", "U+096B", "U+096C", "U+096D", "U+096E", "U+096F">>,
      <<"U+09E6", "U+09E7", "U+09E8", "U+09E9", "U+09EA", "U+09EB", "U+09EC", "U+09ED", "U+09EE", "U+09EF">>,
      <<"U+0A66", "U+0A67", "U+0A68", "U+0A69", "U+0A6A", "U+0A6B", "U+0A6C", "U+0A6D", "U+0A6E", "U+0A6F">>,
      <<"U+0AE6", "U+0AE7", "U+0AE8", "U+0AE9", "U+0AEA", "U+0AEB", "U+0AEC", "U+0AED", "U+0AEE", "U+0AEF">>,
      <<"U+0B66", "U+0B67", "U+0B68", "U+0B69", "U+0B6A", "U+0B6B", "U+0B6C", "U+0B6D", "U+0B6E", "U+0B6F">>,
      <<"U+0BE6", "U+0BE7", "U+0BE8", "U+0BE9", "U+0BEA", "U+0BEB", "U+0BEC", "U+0BED", "U+0BEE", "U+0BEF">>,
      <<"U+0C66", "U+0C67", "U+0C68", "U+0C69", "U+0C6A", "U+0C6B", "U+0C6C", "U+0C6D", "U+0C6E", "U+0C6F">>,
      <<"U+0CE6", "U+0CE7", "U+0CE8", "U+0CE9", "U+0CEA", "U+0CEB", "U+0CEC", "U+0CED", "U+0CEE", "U+0CEF">>,
      <<"U+0D66", "U+0D67", "U+0D68", "U+0D69", "U+0D6A", "U+0D6B", "U+0D6C", "U+0D6D", "U+0D6E", "U+0D6F">>,
      <<"U+0DE6", "U+0DE7", "U+0DE8", "U+0DE9", "U+0DEA", "U+0DEB", "U+0DEC", "U+0DED", "U+0DEE", "U+0DEF">>,
      <<"U+0E50", "U+0E51", "U+0E52", "U+0E53", "U+0E54", "U+0E55", "U+0E56", "U+0E57", "U+0E58", "U+0E59">>,
      <<"U+0ED0", "U+0ED1", "U+0ED2", "U+0ED3", "U+0ED4", "U+0ED5", "U+0ED6", "U+0ED7", "U+0ED8", "U+0ED9">>,
      <<"U+0F20", "U+0F21", "U+0F22", "U+0F23", "U+0F24", "U+0F25", "U+0F26", "U+0F27", "U+0F28", "U+0F29">>,
      <<"U+1040", "U+1041", "U+1042", "U+1043", "U+1044", "U+1045", "U+1046", "U+1047", "U+1048", "U+1049">>,
      <<"U+1090", "U+1091", "U+1092", "U+1093", "U+1094", "U+1095", "U+1096", "U+1097", "U+1098", "U+1099">>,
      <<"U+17E0", "U+17E1", "U+17E2", "U+17E3", "U+17E4", "U+17E5", "U+17E6", "U+17E7", "U+17E8", "U+17E9">>,
      <<"U+1810", "U+1811", "U+1812", "U+1813", "U+1814", "U+1815", "U+1816", "U+1817", "U+1818", "U+1819">>,
      <<"U+1946", "U+1947", "U+1948", "U+1949", "U+194A", "U+194B", "U+194C", "U+194D", "U+194E", "U+194F">>,
      <<"U+19D0", "U+19D1", "U+19D2", "U+19D3", "U+19D4", "U+19D5", "U+19D6", "U+19D7", "U+19D8", "U+19D9">>,
      <<"U+1A80", "U+1A81", "U+1A82", "U+1A83", "U+1A84", "U+1A85", "U+1A86", "U+1A87", "U+1A88", "U+1A89">>,
      <<"U+1A90", "U+1A91", "U+1A92", "U+1A93", "U+1A94", "U+1A95", "U+1A96", "U+1A97", "U+1A98", "U+1A99">>,
      <<"U+1B50", "U+1B51", "U+1B52", "U+1B53", "U+1B54", "U+1B55", "U+1B56", "U+1B57", "U+1B58", "U+1B59">>,
      <<"U+1BB0", "U+1BB1", "U+1BB2", "U+1BB3", "U+1BB4", "U+1BB5", "U+1BB6", "U+1BB7", "U+1BB8", "U+1BB9">>,
      <<"U+1C40", "U+1C41", "U+1C42", "U+1C43", "U+1C44", "U+1C45", "U+1C46", "U+1C47", "U+1C48", "U+1C49">>,
      <<"U+1C50", "U+1C51", "U+1C52", "U+1C53", "U+1C54", "U+1C55", "U+1C56", "U+1C57", "U+1C58", "U+1C59">>,
      <<"U+A620", "U+A621", "U+A622", "U+A623", "U+A624", "U+A625", "U+A626", "U+A627", "U+A628", "U+A629">>,
      <<"U+A8D0", "U+A8D1", "U+A8D2", "U+A8D3", "U+A8D4", "U+A8D5", "U+A8D6", "U+A8D7", "U+A8D8", "U+A8D9">>,
      <<"U+A900", "U+A901", "U+A902", "U+A903", "U+A904", "U+A905", "U+A906", "U+A907", "U+A908", "U+A909">>,
      <<"U+A9D0", "U+A9D1", "U+A9D2", "U+A9D3", "U+A9D4", "U+A9D5", "U+A9D6", "U+A9D7", "U+A9D8", "U+A9D9">>,
      <<"U+A9F0", "U+A9F1", "U+A9F2", "U+A9F3", "U+A9F4", "U+A9F5", "U+A9F6", "U+A9F7", "U+A9F8", "U+A9F9">>,
      <<"U+AA50", "U+AA51", "U+AA52", "U+AA53", "U+AA54", "U+AA55", "U+AA56", "U+AA57", "U+AA58", "U+AA59">>,
      <<"U+ABF0", "U+ABF1", "U+ABF2", "U+ABF3", "U+ABF4", "U+ABF5", "U+ABF6", "U+ABF7", "U+ABF8", "U+ABF9">>,
      <<"U+FF10", "U+FF11", "U+FF12", "U+FF13", "U+FF14", "U+FF15", "U+FF16", "U+FF17", "U+FF18", "U+FF19">>,
      <<"U+104A0", "U+104A1", "U+104A2", "U+104A3", "U+104A4", "U+104A5", "U+104A6", "U+104A7", "U+104A8", "U+104A9">>,
      <<"U+10D30", "U+10D31", "U+10D32", "U+10D33", "U+10D34", "U+10D35", "U+10D36", "U+10D37", "U+10D38", "U+10D39">>,
      <<"U+11066", "U+11067", "U+11068", "U+11069", "U+1106A", "U+1106B", "U+1106C", "U+1106D", "U+1106E", "U+1106F">>,
      <<"U+110F0", "U+110F1", "U+110F2", "U+110F3", "U+110F4", "U+110F5", "U+110F6", "U+110F7", "U+110F8", "U+110F9">>,
      <<"U+11136", "U+11137", "U+11138", "U+11139", "U+1113A", "U+1113B", "U+1113C", "U+1113D", "U+1113E", "U+1113F">>,
      <<"U+111D0", "U+111D1", "U+111D2", "U+111D3", "U+111D4", "U+111D5", "U+111D6", "U+111D7", "U+111D8", "U+111D9">>,
      <<"U+112F0", "U+112F1", "U+112F2", "U+112F3", "U+112F4", "U+112F5", "U+112F6", "U+112F7", "U+112F8", "U+112F9">>,
      <<"U+11450", "U+11451", "U+11452", "U+11453", "U+11454", "U+11455", "U+11456", "U+11457", "U+11458", "U+11459">>,
      <<"U+114D0", "U+114D1", "U+114D2", "U+114D3", "U+114D4", "U+114D5", "U+114D6", "U+114D7", "U+114D8", "U+114D9">>,
      <<"U+11650", "U+11651", "U+11652", "U+11653", "U+11654", "U+11655", "U+11656", "U+11657", "U+11658", "U+11659">>,
      <<"U+116C0", "U+116C1", "U+116C2", "U+116C3", "U+116C4", "U+116C5", "U+116C6", "U+116C7", "U+116C8", "U+116C9">>,
      <<"U+11730", "U+11731", "U+11732", "U+11733", "U+11734", "U+11735", "U+11736", "U+11737", "U+11738", "U+11739">>,
      <<"U+118E0", "U+118E1", "U+118E2", "U+118E3", "U+118E4", "U+118E5", "U+118E6", "U+118E7", "U+118E8", "U+118E9">>,
      <<"U+11950", "U+11951", "U+11952", "U+11953", "U+11954", "U+11955", "U+11956", "U+11957", "U+11958", "U+11959">>,
      <<"U+11C50", "U+11C51", "U+11C52", "U+11C53", "U+11C54", "U+11C55", "U+11C56", "U+11C57", "U+11C58", "U+11C59">>,
      <<"U+11D50", "U+11D51", "U+11D52", "U+11D53", "U+11D54", "U+11D55", "U+11D56", "U+11D57", "U+11D58", "U+11D59">>,
      <<"U+11DA0", "U+11DA1", "U+11DA2", "U+11DA3", "U+11DA4", "U+11DA5", "U+11DA6", "U+11DA7", "U+11DA8", "U+11DA9">>,
      <<"U+16A60", "U+16A61", "U+16A62", "U+16A63", "U+16A64", "U+16A65", "U+16A66", "U+16A67", "U+16A68", "U+16A69">>,
      <<"U+16AC0", "U+16AC1", "U+16AC2", "U+16AC3", "U+16AC4", "U+16AC5", "U+16AC6", "U+16AC7", "U+16AC8", "U+16AC9">>,
      <<"U+16B50", "U+16B51", "U+16B52", "U+16B53", "U+16B54", "U+16B55", "U+16B56", "U+16B57", "U+16B58", "U+16B59">>,
      <<"U+1D7CE", "U+1D7CF", "U+1D7D0", "U+1D7D1", "U+1D7D2", "U+1D7D3", "U+1D7D4", "U+1D7D5", "U+1D7D6", "U+1D7D7">>,
      <<"U+1D7D8", "U+1D7D9", "U+1D7DA", "U+1D7DB", "U+1D7DC", "U+1D7DD", "U+1D7DE", "U+1D7DF", "U+1D7E0", "U+1D7E1">>,
      <<"U+1D7E2", "U+1D7E3", "U+1D7E4", "U+1D7E5", "U+1D7E6", "U+1D7E7", "U+1D7E8", "U+1D7E9", "U+1D7EA", "U+1D7EB">>,
      <<"U+1D7EC", "U+1D7ED", "U+1D7EE", "U+1D7EF", "U+1D7F0", "U+1D7F1", "U+1D7F2", "U+1D7F3", "U+1D7F4", "U+1D7F5">>,
      <<"U+1D7F6", "U+1D7F7", "U+1D7F8", "U+1D7F9", "U+1D7FA", "U+1D7FB", "U+1D7FC", "U+1D7FD", "U+1D7FE", "U+1D7FF">>,
      <<"U+1E140", "U+1E141", "U+1E142", "U+1E143", "U+1E144", "U+1E145", "U+1E146", "U+1E147", "U+1E148", "U+1E149">>,
      <<"U+1E2F0", "U+1E2F1", "U+1E2F2", "U+1E2F3", "U+1E2F4", "U+1E2F5", "U+1E2F6", "U+1E2F7", "U+1E2F8", "U+1E2F9">>,
      <<"U+1E950", "U+1E951", "U+1E952", "U+1E953", "U+1E954", "U+1E955", "U+1E956", "U+1E957", "U+1E958", "U+1E959">>,
      <<"U+1FBF0", "U+1FBF1", "U+1FBF2", "U+1FBF3", "U+1FBF4", "U+1FBF5", "U+1FBF6", "U+1FBF7", "U+1FBF8", "U+1FBF9">>>>

\* the decimal digits, row by row
Digits == <<AsciiDigits>> \o UnicodeDigits

DigitSet == {Digits[b][i] : b \in 1..Len(Digits), i \in 1..10}

\* \d
IsDigit(c) == c \in DigitSet

\* int() of one decimal digit character
DigitValue(c) ==
    (CHOOSE i \in 1..10 : \E b \in 1..Len(Digits) : Digits[b][i] = c) - 1

\* the whitespace int() skips before and after the number; the separators
\* U+001C to U+001F, which str.strip() removes, are not skipped by int()
IsSpace(c) ==
    c \in {"\t", "\n", "U+000B", "\f", "\r", " ", "U+0085", "U+00A0",
            "U+1680", "U+2000", "U+2001", "U+2002", "U+2003", "U+2004",
            "U+2005", "U+2006", "U+2007", "U+2008", "U+2009", "U+200A",
            "U+2028", "U+2029", "U+202F", "U+205F", "U+3000"}

\* s[n:]
Slice(s, n) == IF n >= Len(s) THEN <<>> ELSE SubSeq(s, n + 1, Len(s))

\* s without the whitespace int() skips before the number
RECURSIVE IntLStrip(_)
IntLStrip(s) == IF s # <<>> /\ IsSpace(Head(s)) THEN IntLStrip(Tail(s)) ELSE s

\* s without the whitespace int() skips after the number
RECURSIVE IntRStrip(_)
IntRStrip(s) ==
    IF s # <<>> /\ IsSpace(s[Len(s)]) THEN IntRStrip(SubSeq(s, 1, Len(s) - 1)) ELSE s

\* s as int() reads it: without the whitespace around the number
IntStrip(s) == IntRStrip(IntLStrip(s))

\* str.split(sep) for a one-character separator: never empty, one more field than separators
RECURSIVE Split(_, _)
Split(s, sep) ==
    IF \A i \in 1..Len(s) : s[i] # sep
    THEN <<s>>
    ELSE LET i == CHOOSE k \in 1..Len(s) : s[k] = sep /\ \A j \in 1..(k - 1) : s[j] # sep
         IN  <<SubSeq(s, 1, i - 1)>> \o Split(Slice(s, i), sep)

\* the value of a run of decimal digits
RECURSIVE DigitsToInt(_)
DigitsToInt(s) ==
    IF s = <<>> THEN 0
    ELSE DigitsToInt(SubSeq(s, 1, Len(s) - 1)) * 10 + DigitValue(s[Len(s)])

\* what int() accepts after the sign: digits with single underscores between them
IntBodyOk(b) ==
    /\ b # <<>>
    /\ IsDigit(b[1])
    /\ IsDigit(b[Len(b)])
    /\ \A i \in 1..Len(b) : IsDigit(b[i]) \/ b[i] = "_"
    /\ \A i \in 1..(Len(b) - 1) : ~(b[i] = "_" /\ b[i + 1] = "_")

\* int() of a string whose surrounding whitespace is already stripped
IntOfStripped(t) ==
    LET signed == t # <<>> /\ t[1] \in {"+", "-"}
        b == IF signed THEN Tail(t) ELSE t
    IN  IF IntBodyOk(b)
        THEN [exc |-> "",
              v |-> IF signed /\ t[1] = "-"
                    THEN 0 - DigitsToInt(SelectSeq(b, IsDigit))
                    ELSE DigitsToInt(SelectSeq(b, IsDigit))]
        ELSE [exc |-> "ValueError", v |-> 0]

\* int(s) for a str s: surrounding whitespace is skipped, one sign is allowed,
\* then decimal digits of any script with single underscores between them;
\* anything else is a ValueError
IntOfStr(s) == IntOfStripped(IntStrip(s))

----------------------------------------------------------------------------
(* devices.py: helpers *)

\* the end of the longest run of digits of s that starts at position i (i - 1 when there is none)
RECURSIVE DigitRunEnd(_, _)
DigitRunEnd(s, i) ==
    IF i <= Len(s) /\ IsDigit(s[i]) THEN DigitRunEnd(s, i + 1) ELSE i - 1

\* the ends of n greedy digit runs of s, the first starting at i and each
\* next one two characters past the end of the one before
RECURSIVE DigitRunEnds(_, _, _)
DigitRunEnds(s, i, n) ==
    IF n = 0 THEN <<>>
    ELSE <<DigitRunEnd(s, i)>> \o DigitRunEnds(s, DigitRunEnd(s, i) + 2, n - 1)

\* the four groups of \d+ \( \d+ / \d+ / \d+ \) in s when its digit runs end
\* at e[1..4], each run is not empty and is followed by its literal, and,
\* for a full match, the ")" ends s; <<>> when there is no match
StatsValueGroups(s, e, full) ==
    LET Lit(i, c) == i <= Len(s) /\ s[i] = c
    IN  IF /\ e[1] >= 1
           /\ Lit(e[1] + 1, "(")
           /\ e[2] >= e[1] + 2
           /\ Lit(e[2] + 1, "/")
           /\ e[3] >= e[2] + 2
           /\ Lit(e[3] + 1, "/")
           /\ e[4] >= e[3] + 2
           /\ Lit(e[4] + 1, ")")
           /\ full => e[4] + 1 = Len(s)
        THEN <<SubSeq(s, 1, e[1]), SubSeq(s, e[1] + 2, e[2]),
               SubSeq(s, e[2] + 2, e[3]), SubSeq(s, e[3] + 2, e[4])>>
        ELSE <<>>

\* STATS_VALUE_REGEX.match(s) in place of fullmatch(s): text may follow the match
STATS_VALUE_REGEX_match(s) == StatsValueGroups(s, DigitRunEnds(s, 1, 4), FALSE)

\* STATS_VALUE_REGEX.fullmatch(s): \d+ \( \d+ / \d+ / \d+ \) and then the end of s.
\* The groups are greedy digit runs each followed by a non-digit literal, so
\* the match is found without backtracking. <<>> when there is no match,
\* else the four groups.
STATS_VALUE_REGEX_fullmatch(s) == StatsValueGroups(s, DigitRunEnds(s, 1, 4), TRUE)

\* [int(s) for s in match.groups()] if match else [None, None, None, None]
IntsOfGroups(match) ==
    IF match # <<>>
    THEN [i \in 1..4 |-> Some(DigitsToInt(match[i]))]
    ELSE <<None, None, None, None>>

\* _parse_stats_value
_parse_stats_value(s) == IntsOfGroups(STATS_VALUE_REGEX_fullmatch(s))

\* round(n / d) for d > 0: the nearest integer, a tie going to the even one
RoundHalfEven(n, d) ==
    LET q == n \div d
        r == n % d
    IN  IF 2 * r < d THEN q
        ELSE IF 2 * r > d THEN q + 1
        ELSE IF q % 2 = 0 THEN q ELSE q + 1

\* int(...) in place of round(...): the fraction is cut off
TempToMkOfInt_truncated(f) == ((f - 320) * 5000 + 273150 * 90) \div 90

\* round(1000 * ((f * .1 - 32) * 5 / 9 + 273.15)) for an int f, over the
\* common denominator 90: 1000 * ((f - 320) * 5 / 90 + 27315 / 100)
TempToMkOfInt(f) == RoundHalfEven((f - 320) * 5000 + 273150 * 90, 90)

\* the rest of _temp_to_mk once int(f) has returned or raised
TempToMkOfParsed(i) ==
    IF i.exc # "" THEN i ELSE [exc |-> "", v |-> TempToMkOfInt(i.v)]

\* _temp_to_mk(f): int(f) is f for an int, a parse for a str, a TypeError for None
_temp_to_mk(f) ==
    IF f.t = "none" THEN [exc |-> "TypeError", v |-> 0]
    ELSE IF f.t = "int" THEN [exc |-> "", v |-> TempToMkOfInt(f.v)]
    ELSE TempToMkOfParsed(IntOfStr(f.v))

PyInt(n) == [t |-> "int", v |-> n]
PyStr(s) == [t |-> "str", v |-> s]
PyNone == [t |-> "none"]

\* an attribute value (None or an int) as an argument of _temp_to_mk
AsArg(x) == IF x = None THEN PyNone ELSE PyInt(x[1])

----------------------------------------------------------------------------
(* devices.py: the classes and their constructors *)

HubClasses == {"HomgarHubDevice", "RainPointDisplayHub"}

SubDeviceClasses ==
    {"HomgarSubDevice", "RainPointSoilMoistureSensor", "RainPointRainSensor",
     "RainPointAirSensor", "RainPoint2ZoneTimer"}

\* the classes in the order MODEL_CODE_MAPPING lists them, with their MODEL_CODES
MODEL_CODE_MAPPING ==
    (264 :> "RainPointDisplayHub") @@ (72 :> "RainPointSoilMoistureSensor")
      @@ (87 :> "RainPointRainSensor") @@ (262 :> "RainPointAirSensor")
      @@ (261 :> "RainPoint2ZoneTimer")

\* self.<name> = None for each name
WithNone(self, names) ==
    [k \in DOMAIN self \cup names |-> IF k \in names THEN None ELSE self[k]]

\* self.<name> = v
SetAttr(self, name, v) ==
    [k \in DOMAIN self \cup {name} |-> IF k = name THEN v ELSE self[k]]

HasAttr(self, name) == name \in DOMAIN self

\* HomgarDevice.__init__(model, model_code, name, did, mid, alerts, **kwargs):
\* the other keyword arguments are accepted and dropped
HomgarDevice__init__(cls, kwargs) ==
    [exc |-> "",
     self |-> [class |-> cls,
               model |-> kwargs.model,
               model_code |-> kwargs.model_code,
               name |-> kwargs.name,
               did |-> kwargs.did,
               mid |-> kwargs.mid,
               alerts |-> kwargs.alerts,
               address |-> None,
               rf_rssi |-> None]]

\* HomgarHubDevice.__init__(subdevices, **kwargs): subdevices is required
HomgarHubDevice__init__(cls, kwargs) ==
    IF "subdevices" \notin DOMAIN kwargs
    THEN [exc |-> "TypeError", self |-> <<>>]
    ELSE LET base == HomgarDevice__init__(cls, kwargs)
         IN  [exc |-> "",
              self |-> SetAttr(SetAttr(base.self, "address", Some(1)),
                               "subdevices", kwargs.subdevices)]

\* HomgarSubDevice.__init__(address, port_number, **kwargs)
HomgarSubDevice__init__(cls, kwargs) ==
    IF ~({"address", "port_number"} \subseteq DOMAIN kwargs)
    THEN [exc |-> "TypeError", self |-> <<>>]
    ELSE LET base == HomgarDevice__init__(cls, kwargs)
         IN  [exc |-> "",
              self |-> SetAttr(SetAttr(base.self, "address", kwargs.address),
                               "port_number", kwargs.port_number)]

RainPointDisplayHub__init__(cls, kwargs) ==
    LET super == HomgarHubDevice__init__(cls, kwargs)
    IN  IF super.exc # "" THEN super
        ELSE [exc |-> "",
              self |-> WithNone(super.self,
                  {"wifi_rssi", "battery_state", "connected",
                   "temp_mk_current", "temp_mk_daily_max", "temp_mk_daily_min", "temp_trend",
                   "hum_current", "hum_daily_max", "hum_daily_min", "hum_trend",
                   "press_pa_current", "press_pa_daily_max", "press_pa_daily_min",
                   "press_trend"})]

RainPointSoilMoistureSensor__init__(cls, kwargs) ==
    LET super == HomgarSubDevice__init__(cls, kwargs)
    IN  IF super.exc # "" THEN super
        ELSE [exc |-> "",
              self |-> WithNone(super.self,
                  {"temp_mk_current", "moist_percent_current", "light_lux_current"})]

\* rainfall_mm_total is assigned twice and rainfall_mm_7days not at all
RainPointRainSensor__init__(cls, kwargs) ==
    LET super == HomgarSubDevice__init__(cls, kwargs)
    IN  IF super.exc # "" THEN super
        ELSE [exc |-> "",
              self |-> WithNone(WithNone(super.self,
                  {"rainfall_mm_total", "rainfall_mm_hour", "rainfall_mm_daily"}),
                  {"rainfall_mm_total"})]

RainPointAirSensor__init__(cls, kwargs) ==
    LET super == HomgarSubDevice__init__(cls, kwargs)
    IN  IF super.exc # "" THEN super
        ELSE [exc |-> "",
              self |-> WithNone(super.self,
                  {"temp_mk_current", "temp_mk_daily_max", "temp_mk_daily_min", "temp_trend",
                   "hum_current", "hum_daily_max", "hum_daily_min", "hum_trend"})]

\* clazz(**kwargs): the constructor the class resolves to
Construct(cls, kwargs) ==
    CASE cls = "HomgarHubDevice" -> HomgarHubDevice__init__(cls, kwargs)
      [] cls = "RainPointDisplayHub" -> RainPointDisplayHub__init__(cls, kwargs)
      [] cls = "RainPointSoilMoistureSensor" -> RainPointSoilMoistureSensor__init__(cls, kwargs)
      [] cls = "RainPointRainSensor" -> RainPointRainSensor__init__(cls, kwargs)
      [] cls = "RainPointAirSensor" -> RainPointAirSensor__init__(cls, kwargs)
      [] OTHER -> HomgarSubDevice__init__(cls, kwargs)

----------------------------------------------------------------------------
(* api.py: get_devices_for_home *)

device_base_props(dev_data) ==
    [model |-> dev_data.model,
     model_code |-> dev_data.modelCode,
     name |-> dev_data.name,
     did |-> dev_data.did,
     mid |-> dev_data.mid,
     address |-> Some(dev_data.addr),
     port_number |-> dev_data.portNumber,
     alerts |-> dev_data.alerts]

\* None (here "") for a model code the mapping does not have, after a warning
get_device_class(dev_data) ==
    IF dev_data.modelCode \notin DOMAIN MODEL_CODE_MAPPING
    THEN ""
    ELSE MODEL_CODE_MAPPING[dev_data.modelCode]

\* the loop over one hub's subDevices, from entry i on, appending to subdevices
RECURSIVE BuildSubdevices(_, _, _)
BuildSubdevices(subs, i, subdevices) ==
    IF i > Len(subs) THEN [exc |-> "", v |-> subdevices]
    ELSE LET subdevice_data == subs[i]
             subdevice_class == get_device_class(subdevice_data)
         IN  IF subdevice_data.did = 1
             THEN BuildSubdevices(subs, i + 1, subdevices)
             ELSE IF subdevice_class = ""
             THEN BuildSubdevices(subs, i + 1, subdevices)
             ELSE LET made == Construct(subdevice_class, device_base_props(subdevice_data))
                  IN  IF made.exc # "" THEN [exc |-> made.exc, v |-> <<>>]
                      ELSE BuildSubdevices(subs, i + 1, Append(subdevices, made.self))

\* the loop over the hub records, from record i on, appending to hubs
RECURSIVE BuildHubs(_, _, _)
BuildHubs(data, i, acc) ==
    IF i > Len(data) THEN [exc |-> "", v |-> acc]
    ELSE LET hub_data == data[i]
             subdevices == BuildSubdevices(hub_data.subDevices, 1, <<>>)
             found == get_device_class(hub_data)
             hub_class == IF found = "" THEN "HomgarHubDevice" ELSE found
         IN  IF subdevices.exc # "" THEN [exc |-> subdevices.exc, v |-> <<>>]
             ELSE LET made == Construct(hub_class,
                                  device_base_props(hub_data)
                                    @@ [subdevices |-> subdevices.v])
                  IN  IF made.exc # "" THEN [exc |-> made.exc, v |-> <<>>]
                      ELSE BuildHubs(data, i + 1, Append(acc, made.self))

get_devices_for_home(data) == BuildHubs(data, 1, <<>>)

----------------------------------------------------------------------------
(* devices.py: status ids and status decoders *)

\* str(n) for an int n
RECURSIVE NatToStr(_)
NatToStr(n) ==
    IF n < 10 THEN <<AsciiDigits[n + 1]>>
    ELSE NatToStr(n \div 10) \o <<AsciiDigits[(n % 10) + 1]>>

IntToStr(n) == IF n < 0 THEN <<"-">> \o NatToStr(0 - n) ELSE NatToStr(n)

\* f"D{address:02d}": the sign and digits of address, zero-filled to two
\* characters; formatting None raises TypeError
FormatD02(address) ==
    IF address = None THEN [exc |-> "TypeError", v |-> <<>>]
    ELSE LET n == address[1]
             d == IntToStr(n)
         IN  [exc |-> "",
              v |-> <<"D">> \o (IF Len(d) >= 2 THEN d
                                ELSE IF n < 0 THEN <<"-", "0">> \o Tail(d)
                                ELSE <<"0">> \o d)]

ID_connected == <<"c", "o", "n", "n", "e", "c", "t", "e", "d">>
ID_state == <<"s", "t", "a", "t", "e">>
ID_D01 == <<"D", "0", "1">>

\* get_device_status_ids, as the class of self resolves it: HomgarDevice's
\* for the plain hub, HomgarSubDevice's for every sub-device class,
\* RainPointDisplayHub's own
get_device_status_ids(self) ==
    IF self.class = "RainPointDisplayHub"
    THEN [exc |-> "", v |-> <<ID_connected, ID_state, ID_D01>>]
    ELSE IF self.class \in SubDeviceClasses
    THEN LET id == FormatD02(self.address)
         IN  IF id.exc # "" THEN id ELSE [exc |-> "", v |-> <<id.v>>]
    ELSE [exc |-> "", v |-> <<>>]

\* the signal strength of the general part stored as wifi_rssi, the field of
\* the "state" record, in place of rf_rssi
General_assign_wifi(self, rf_rssi) ==
    IF rf_rssi.exc # "" THEN [exc |-> rf_rssi.exc, self |-> self]
    ELSE [exc |-> "", self |-> SetAttr(self, "wifi_rssi", Some(rf_rssi.v))]

\* self.rf_rssi = int(rf_rssi)
General_assign(self, rf_rssi) ==
    IF rf_rssi.exc # "" THEN [exc |-> rf_rssi.exc, self |-> self]
    ELSE [exc |-> "", self |-> [self EXCEPT !.rf_rssi = Some(rf_rssi.v)]]

\* HomgarDevice._parse_general_status_d_value
_parse_general_status_d_value(self, s) ==
    LET parts == Split(s, ",")
    IN  IF Len(parts) # 3 THEN [exc |-> "ValueError", self |-> self]
        ELSE General_assign(self, IntOfStr(parts[2]))

\* the list of four results, or the exception of the first that raised
ListOrFirstRaise(mk) ==
    IF \E i \in 1..4 : mk[i].exc # ""
    THEN [exc |-> mk[CHOOSE i \in 1..4 :
                        mk[i].exc # "" /\ \A j \in 1..(i - 1) : mk[j].exc = ""].exc,
          v |-> <<>>]
    ELSE [exc |-> "", v |-> [i \in 1..4 |-> Some(mk[i].v)]]

\* [_temp_to_mk(v) for v in stats]: the first element that raises ends it
TempsToMk(stats) == ListOrFirstRaise([i \in 1..4 |-> _temp_to_mk(AsArg(stats[i]))])

\* the assignments that end RainPointDisplayHub's decoder; a temperature
\* that raised ends it before the first of them
DisplayHub_assign(self, temp, hum, press) ==
    IF temp.exc # "" THEN [exc |-> temp.exc, self |-> self]
    ELSE [exc |-> "",
          self |-> [self EXCEPT
              !.temp_mk_current = temp.v[1], !.temp_mk_daily_max = temp.v[2],
              !.temp_mk_daily_min = temp.v[3], !.temp_trend = temp.v[4],
              !.hum_current = hum[1], !.hum_daily_max = hum[2],
              !.hum_daily_min = hum[3], !.hum_trend = hum[4],
              !.press_pa_current = press[1], !.press_pa_daily_max = press[2],
              !.press_pa_daily_min = press[3], !.press_trend = press[4]]]

\* press_str in place of press_str[2:]: the "P=" is not stripped
DisplayHub_parse_specific_unstripped(self, s) ==
    LET parts == Split(s, ",")
    IN  IF Len(parts) < 3 THEN [exc |-> "ValueError", self |-> self]
        ELSE DisplayHub_assign(self, TempsToMk(_parse_stats_value(parts[1])),
                 _parse_stats_value(parts[2]), _parse_stats_value(parts[3]))

\* RainPointDisplayHub._parse_device_specific_status_d_value
DisplayHub_parse_specific(self, s) ==
    LET parts == Split(s, ",")
    IN  IF Len(parts) < 3 THEN [exc |-> "ValueError", self |-> self]
        ELSE DisplayHub_assign(self, TempsToMk(_parse_stats_value(parts[1])),
                 _parse_stats_value(parts[2]), _parse_stats_value(Slice(parts[3], 2)))

\* the three assignments of RainPointSoilMoistureSensor's decoder in turn,
\* each kept when a later one raises
SoilSensor_assign(self, temp, moist, light) ==
    LET self1 == [self EXCEPT !.temp_mk_current = Some(temp.v)]
        self2 == [self1 EXCEPT !.moist_percent_current = Some(moist.v)]
    IN  IF temp.exc # "" THEN [exc |-> temp.exc, self |-> self]
        ELSE IF moist.exc # "" THEN [exc |-> moist.exc, self |-> self1]
        ELSE IF light.exc # "" THEN [exc |-> light.exc, self |-> self2]
        ELSE [exc |-> "",
              self |-> [self2 EXCEPT !.light_lux_current = TimesTenth(light.v)]]

\* RainPointSoilMoistureSensor._parse_device_specific_status_d_value
SoilSensor_parse_specific(self, s) ==
    LET parts == Split(s, ",")
    IN  IF Len(parts) # 3 THEN [exc |-> "ValueError", self |-> self]
        ELSE SoilSensor_assign(self, _temp_to_mk(PyStr(parts[1])), IntOfStr(parts[2]),
                 IntOfStr(Slice(parts[3], 2)))

\* the hour and the daily rainfall assigned the other way round
RainSensor_assign_swapped(self, stats) ==
    IF stats[1] = None THEN [exc |-> "TypeError", self |-> self]
    ELSE [exc |-> "",
          self |-> SetAttr(SetAttr(SetAttr(SetAttr(self,
              "rainfall_mm_total", TimesTenth(stats[1][1])),
              "rainfall_mm_daily", TimesTenth(stats[2][1])),
              "rainfall_mm_hour", TimesTenth(stats[3][1])),
              "rainfall_mm_7days", TimesTenth(stats[4][1]))]

\* the four assignments of RainPointRainSensor's decoder: .1 * None is a TypeError
RainSensor_assign(self, stats) ==
    IF stats[1] = None THEN [exc |-> "TypeError", self |-> self]
    ELSE [exc |-> "",
          self |-> SetAttr(SetAttr(SetAttr(SetAttr(self,
              "rainfall_mm_total", TimesTenth(stats[1][1])),
              "rainfall_mm_hour", TimesTenth(stats[2][1])),
              "rainfall_mm_daily", TimesTenth(stats[3][1])),
              "rainfall_mm_7days", TimesTenth(stats[4][1]))]

\* RainPointRainSensor._parse_device_specific_status_d_value
RainSensor_parse_specific(self, s) == RainSensor_assign(self, _parse_stats_value(Slice(s, 2)))

\* the assignments that end RainPointAirSensor's decoder
AirSensor_assign(self, temp, hum) ==
    IF temp.exc # "" THEN [exc |-> temp.exc, self |-> self]
    ELSE [exc |-> "",
          self |-> [self EXCEPT
              !.temp_mk_current = temp.v[1], !.temp_mk_daily_max = temp.v[2],
              !.temp_mk_daily_min = temp.v[3], !.temp_trend = temp.v[4],
              !.hum_current = hum[1], !.hum_daily_max = hum[2],
              !.hum_daily_min = hum[3], !.hum_trend = hum[4]]]

\* RainPointAirSensor._parse_device_specific_status_d_value
AirSensor_parse_specific(self, s) ==
    LET parts == Split(s, ",")
    IN  IF Len(parts) < 2 THEN [exc |-> "ValueError", self |-> self]
        ELSE AirSensor_assign(self, TempsToMk(_parse_stats_value(parts[1])),
                 _parse_stats_value(parts[2]))

\* the 2-zone timer and the plain devices left with HomgarDevice's decoder,
\* which raises NotImplementedError, in place of their own pass
Specific_not_overridden(self, s) ==
    CASE self.class = "RainPointDisplayHub" -> DisplayHub_parse_specific(self, s)
      [] self.class = "RainPointSoilMoistureSensor" -> SoilSensor_parse_specific(self, s)
      [] self.class = "RainPointRainSensor" -> RainSensor_parse_specific(self, s)
      [] self.class = "RainPointAirSensor" -> AirSensor_parse_specific(self, s)
      [] OTHER -> [exc |-> "NotImplementedError", self |-> self]

\* _parse_device_specific_status_d_value, as the class of self resolves it:
\* a pass for the plain hub, the plain sub-device and the 2-zone timer
_parse_device_specific_status_d_value(self, s) ==
    CASE self.class = "RainPointDisplayHub" -> DisplayHub_parse_specific(self, s)
      [] self.class = "RainPointSoilMoistureSensor" -> SoilSensor_parse_specific(self, s)
      [] self.class = "RainPointRainSensor" -> RainSensor_parse_specific(self, s)
      [] self.class = "RainPointAirSensor" -> AirSensor_parse_specific(self, s)
      [] OTHER -> [exc |-> "", self |-> self]

\* the specific part is decoded only when the general part did not raise
Specific_after(general, specific_str) ==
    IF general.exc # "" THEN general
    ELSE _parse_device_specific_status_d_value(general.self, specific_str)

\* HomgarDevice._parse_status_d_value: the general part is applied before
\* the specific part is looked at
_parse_status_d_value(self, val) ==
    LET parts == Split(val, ";")
    IN  IF Len(parts) # 2 THEN [exc |-> "ValueError", self |-> self]
        ELSE Specific_after(_parse_general_status_d_value(self, parts[1]), parts[2])

\* HomgarDevice.set_device_status
HomgarDevice_set_device_status(self, api_obj) ==
    LET id == FormatD02(self.address)
    IN  IF id.exc # "" THEN [exc |-> id.exc, self |-> self]
        ELSE IF api_obj.id = id.v THEN _parse_status_d_value(self, api_obj.value)
        ELSE [exc |-> "", self |-> self]

\* the list of the int() results, or ValueError when one of them raised
IntsOrRaise(ints) ==
    IF \E i \in 1..Len(ints) : ints[i].exc # ""
    THEN [exc |-> "ValueError", v |-> <<>>]
    ELSE [exc |-> "", v |-> [i \in 1..Len(ints) |-> ints[i].v]]

\* [int(s) for s in val.split(',')]
IntsOfFields(parts) == IntsOrRaise([i \in 1..Len(parts) |-> IntOfStr(parts[i])])

\* battery_state, wifi_rssi = [int(s) for s in val.split(',')]
State_assign(self, ints) ==
    IF ints.exc # "" THEN [exc |-> ints.exc, self |-> self]
    ELSE IF Len(ints.v) # 2 THEN [exc |-> "ValueError", self |-> self]
    ELSE [exc |-> "",
          self |-> [self EXCEPT !.battery_state = Some(ints.v[1]),
                                !.wifi_rssi = Some(ints.v[2])]]

\* connected = bool(int(val)) in place of int(val) == 1
Connected_assign_truthy(self, i) ==
    IF i.exc # "" THEN [exc |-> i.exc, self |-> self]
    ELSE [exc |-> "", self |-> [self EXCEPT !.connected = Some(i.v # 0)]]

\* self.connected = int(val) == 1
Connected_assign(self, i) ==
    IF i.exc # "" THEN [exc |-> i.exc, self |-> self]
    ELSE [exc |-> "", self |-> [self EXCEPT !.connected = Some(i.v = 1)]]

\* RainPointDisplayHub.set_device_status
DisplayHub_set_device_status(self, api_obj) ==
    IF api_obj.id = ID_state
    THEN State_assign(self, IntsOfFields(Split(api_obj.value, ",")))
    ELSE IF api_obj.id = ID_connected
    THEN Connected_assign(self, IntOfStr(api_obj.value))
    ELSE HomgarDevice_set_device_status(self, api_obj)

set_device_status(self, api_obj) ==
    IF self.class = "RainPointDisplayHub"
    THEN DisplayHub_set_device_status(self, api_obj)
    ELSE HomgarDevice_set_device_status(self, api_obj)

----------------------------------------------------------------------------
(* api.py: get_device_status *)

\* [hub, *hub.subdevices]
DevicesOf(hub) == <<hub>> \o hub.subdevices

\* whether device p of the list declares status_id
Declares(devices, p, status_id) ==
    LET ids == get_device_status_ids(devices[p]).v
    IN  \E k \in 1..Len(ids) : ids[k] = status_id

\* the first device that gives the key kept in place of the last
IdMapGet_first(devices, status_id) ==
    IF \E p \in 1..Len(devices) : Declares(devices, p, status_id)
    THEN CHOOSE p \in 1..Len(devices) :
             /\ Declares(devices, p, status_id)
             /\ \A q \in 1..(p - 1) : ~Declares(devices, q, status_id)
    ELSE 0

\* id_map.get(status_id): the dict comprehension keeps, for a key given more
\* than once, the last device that gave it; 0 stands for None
IdMapGet(devices, status_id) ==
    IF \E p \in 1..Len(devices) : Declares(devices, p, status_id)
    THEN CHOOSE p \in 1..Len(devices) :
             /\ Declares(devices, p, status_id)
             /\ \A q \in (p + 1)..Len(devices) : ~Declares(devices, q, status_id)
    ELSE 0

\* device.set_device_status(...) on device p of [hub, *hub.subdevices] having
\* ended as done: the objects are mutated in place, so the hub sees what a
\* decoder did to its sub-device, also when the decoder raised
WithDevice(hub, p, done) ==
    [exc |-> done.exc,
     hub |-> IF p = 1 THEN done.self
             ELSE [hub EXCEPT !.subdevices = [@ EXCEPT ![p - 1] = done.self]]]

\* id_map[...] in place of id_map.get(...): an id no device declares is a KeyError
HandleStatus_subscript(hub, p, api_obj) ==
    IF p = 0 THEN [exc |-> "KeyError", hub |-> hub]
    ELSE WithDevice(hub, p, set_device_status(DevicesOf(hub)[p], api_obj))

\* one turn of the loop, id_map.get(...) having given device p (0 for None):
\* "if device is not None: device.set_device_status(subdevice_status)"
HandleStatus(hub, p, api_obj) ==
    IF p = 0 THEN [exc |-> "", hub |-> hub]
    ELSE WithDevice(hub, p, set_device_status(DevicesOf(hub)[p], api_obj))

\* the loop over data['subDeviceStatus'] from record i on; seen is the hub
\* as it was before the loop and after each record handled
RECURSIVE ApplyStatus(_, _, _, _)
RECURSIVE ApplyStatusAfter(_, _, _, _)
ApplyStatus(hub, records, i, seen) ==
    IF i > Len(records) THEN [exc |-> "", hub |-> hub, trace |-> seen]
    ELSE ApplyStatusAfter(
             HandleStatus(hub, IdMapGet(DevicesOf(hub), records[i].id), records[i]),
             records, i, seen)

\* the loop after record i ended as done: an exception leaves the loop
ApplyStatusAfter(done, records, i, seen) ==
    IF done.exc # ""
    THEN [exc |-> done.exc, hub |-> done.hub, trace |-> Append(seen, done.hub)]
    ELSE ApplyStatus(done.hub, records, i + 1, Append(seen, done.hub))

\* get_device_status(hub) with data['subDeviceStatus'] = records
get_device_status(hub, records) ==
    IF ~HasAttr(hub, "subdevices")
    THEN [exc |-> "AttributeError", hub |-> hub, trace |-> <<hub>>]
    ELSE IF \E p \in 1..Len(DevicesOf(hub)) : get_device_status_ids(DevicesOf(hub)[p]).exc # ""
    THEN [exc |-> "TypeError", hub |-> hub, trace |-> <<hub>>]
    ELSE ApplyStatus(hub, records, 1, <<hub>>)

----------------------------------------------------------------------------
(* Inputs: device listings *)

MaxHubs == 2
MaxSubs == 2
MaxRecords == 2

\* the sequences over S of length at most n
SeqsUpTo(S, n) == UNION {[1..k -> S] : k \in 0..n}

\* one record of the device listing; the fields the code only passes
\* through are fixed by the record's did
DeviceRecord(modelCode, did, addr) ==
    [model |-> "model", modelCode |-> modelCode, name |-> "name", did |-> did,
     mid |-> 7, addr |-> addr, portNumber |-> 1, alerts |-> <<>>]

HubRecord(modelCode, did, subDevices) ==
    DeviceRecord(modelCode, did, 1) @@ [subDevices |-> subDevices]

\* a display hub, an unknown model, and a model registered for a sub-device class
HubModelCodes == {264, 999, 87}

\* the listings whose hub then receives records for itself: under the hub a
\* soil sensor at address 2 and a rain sensor at the hub's own address 1
HubSubRecords == {DeviceRecord(72, 12, 2), DeviceRecord(87, 16, 1)}

HubListings ==
    {<<HubRecord(c, 11, subs)>> : c \in HubModelCodes, subs \in SeqsUpTo(HubSubRecords, MaxSubs)}

\* the listings whose hub then receives records for its sub-devices: a soil
\* sensor and an air sensor that share address 2, a rain sensor at 3 and a
\* rain sensor at the hub's own address 1
SubRecords ==
    {DeviceRecord(72, 12, 2), DeviceRecord(262, 13, 2), DeviceRecord(87, 14, 3),
     DeviceRecord(87, 16, 1)}

SubListings ==
    {<<HubRecord(c, 11, subs)>> :
        c \in {x \in HubModelCodes : x \notin DOMAIN MODEL_CODE_MAPPING
                                       \/ MODEL_CODE_MAPPING[x] \in HubClasses},
        subs \in SeqsUpTo(SubRecords, MaxSubs)}

\* sub-device records for the listings that are only built: a rain sensor,
\* the hub's own display entry (did 1), an unknown model, a soil sensor, and
\* the display hub's model code on a sub-device
BuildSubRecords ==
    {DeviceRecord(87, 21, 2), DeviceRecord(72, 1, 3), DeviceRecord(998, 23, 4),
     DeviceRecord(72, 24, 5), DeviceRecord(264, 25, 6)}

BuildHubRecords ==
    {HubRecord(c, 30 + Len(subs), subs) :
        c \in HubModelCodes, subs \in SeqsUpTo(BuildSubRecords, MaxSubs)}

BuildListings == SeqsUpTo(BuildHubRecords, MaxHubs)

----------------------------------------------------------------------------
(* Inputs: status records *)

\* "<unused>,<rf_rssi>,<unused>"
GeneralPart(rf_rssi) == <<"1", ",">> \o IntToStr(rf_rssi) \o <<",", "1">>

\* "<a>(<b>/<c>/<d>)" for q = <<a, b, c, d>>
StatsValue(q) ==
    IntToStr(q[1]) \o <<"(">> \o IntToStr(q[2]) \o <<"/">> \o IntToStr(q[3])
        \o <<"/">> \o IntToStr(q[4]) \o <<")">>

DisplaySpecific(t, h, p) ==
    StatsValue(t) \o <<",">> \o StatsValue(h) \o <<",", "P", "=">> \o StatsValue(p) \o <<",">>

SoilSpecific(t, m, g) ==
    IntToStr(t) \o <<",">> \o IntToStr(m) \o <<",", "G", "=">> \o IntToStr(g)

RainSpecific(r) == <<"R", "=">> \o StatsValue(r)

AirSpecific(t, h) == StatsValue(t) \o <<",">> \o StatsValue(h) \o <<",">>

DValue(general, specific) == general \o <<";">> \o specific

StatusRecord(id, value) == [id |-> id, value |-> value]

ID_D02 == <<"D", "0", "2">>
ID_D03 == <<"D", "0", "3">>
ID_D99 == <<"D", "9", "9">>

\* the stats values of the display-hub payloads
DisplayReadings ==
    {<<<<781, 781, 723, 1>>, <<52, 64, 50, 1>>, <<10213, 10222, 10205, 1>>>>,
     <<<<320, 405, 7, 0>>, <<9, 100, 0, 2>>, <<9876, 10001, 99, 0>>>>}

RainReadings == {<<270, 0, 0, 270>>, <<3, 1, 2, 13>>}

\* among them the Arabic-Indic digit one between a no-break space and a
\* carriage return
ConnectedValues ==
    {<<"1">>, <<"0">>, <<"2">>, <<"0", "1">>, <<"a", "b", "c">>, <<>>,
     <<"U+00A0", "U+0661", "\r">>}

DisplayRecords ==
    {StatusRecord(ID_D01, DValue(GeneralPart(0 - 50 - r[1][4]), DisplaySpecific(r[1], r[2], r[3]))) :
        r \in DisplayReadings}

\* the records for the hub itself, and one for nobody; a "state" value of one
\* field, and a "D01" record with a rain sensor's payload, for the rain
\* sensor at the hub's address when there is one
HubStatusRecords ==
    DisplayRecords
    \cup {StatusRecord(ID_state, <<"3", ",", "-", "5", "5">>),
          StatusRecord(ID_state, <<"3">>),
          StatusRecord(ID_D01, DValue(GeneralPart(0 - 58), RainSpecific(<<270, 0, 0, 270>>))),
          StatusRecord(ID_D99, <<"?">>)}
    \cup {StatusRecord(ID_connected, v) : v \in ConnectedValues}

HubStatusResponses == SeqsUpTo(HubStatusRecords, MaxRecords)

\* the records for the sub-devices, one with the hub's id and two for nobody
SubStatusRecords ==
    {StatusRecord(ID_D03, DValue(GeneralPart(0 - 70 - r[2]), RainSpecific(r))) :
        r \in RainReadings}
    \cup {StatusRecord(ID_D02, DValue(GeneralPart(0 - 66), SoilSpecific(766, 52, 31351))),
          StatusRecord(ID_D02, DValue(GeneralPart(0 - 67),
              AirSpecific(<<755, 1020, 588, 1>>, <<54, 91, 24, 1>>))),
          StatusRecord(ID_D01, DValue(GeneralPart(0 - 52), <<>>)),
          StatusRecord(ID_D99, DValue(GeneralPart(0 - 69), RainSpecific(<<270, 0, 0, 270>>))),
          StatusRecord(ID_D99, <<"?">>)}

SubStatusResponses == SeqsUpTo(SubStatusRecords, MaxRecords)

----------------------------------------------------------------------------
(* The operations *)

Init ==
    /\ listing = <<>>
    /\ hubs = <<>>
    /\ op = "init"
    /\ exc = ""
    /\ arg = <<>>
    /\ trace = <<>>
    /\ ret = <<>>

\* hubs = api.get_devices_for_home(hid), the API answering with data: as in
\* demo(), the first call of a run
GetDevicesForHome(data) ==
    /\ op = "init"
    /\ listing' = data
    /\ \E made \in {get_devices_for_home(data)} :
           /\ hubs' = made.v
           /\ exc' = made.exc
    /\ op' = "devices"
    /\ arg' = <<>>
    /\ trace' = <<>>
    /\ ret' = <<>>

\* api.get_device_status(hubs[h]), the API answering with the records: as in
\* demo(), once on a hub of the list just fetched
GetDeviceStatus(h, records) ==
    /\ op = "devices"
    /\ exc = ""
    /\ h \in 1..Len(hubs)
    /\ \E done \in {get_device_status(hubs[h], records)} :
           /\ hubs' = [hubs EXCEPT ![h] = done.hub]
           /\ exc' = done.exc
           /\ trace' = done.trace
    /\ op' = "status"
    /\ arg' = [hub |-> h, records |-> records]
    /\ UNCHANGED <<listing, ret>>

\* a hub and the records the hub itself listens to
FetchHub == \E data \in HubListings : GetDevicesForHome(data)

HubStatus ==
    \E h \in 1..Len(hubs) : \E records \in HubStatusResponses : GetDeviceStatus(h, records)

Next == FetchHub \/ HubStatus

Spec == Init /\ [][Next]_vars

\* a hub with sub-devices and the records its sub-devices listen to
FetchSubDevices == \E data \in SubListings : GetDevicesForHome(data)

SubDeviceStatus ==
    \E h \in 1..Len(hubs) : \E records \in SubStatusResponses : GetDeviceStatus(h, records)

NextSubDevices == FetchSubDevices \/ SubDeviceStatus

SpecSubDevices == Init /\ [][NextSubDevices]_vars

\* listings of several hubs, only built

FetchDevices == \E data \in BuildListings : GetDevicesForHome(data)

NextDevices == FetchDevices

SpecDevices == Init /\ [][NextDevices]_vars

----------------------------------------------------------------------------
(* The helpers on their own *)

MaxEdits == 1
MaxTenthsF == 1300

\* a digit, the literals of the pattern, a space, a letter and the
\* Arabic-Indic digit three
EditAlphabet == {"1", "(", ")", "/", " ", "a", "U+0663"}

\* the strings one insertion, deletion or replacement of a character away from s
EditsOf(s) ==
    {SubSeq(s, 1, i - 1) \o SubSeq(s, i + 1, Len(s)) : i \in 1..Len(s)}
    \cup {SubSeq(s, 1, i) \o <<c>> \o SubSeq(s, i + 1, Len(s)) :
            i \in 0..Len(s), c \in EditAlphabet}
    \cup {[s EXCEPT ![i] = c] : i \in 1..Len(s), c \in EditAlphabet}

RECURSIVE WithinEdits(_, _)
WithinEdits(S, n) ==
    IF n = 0 THEN S ELSE WithinEdits(S \cup UNION {EditsOf(s) : s \in S}, n - 1)

\* well-formed stats values: one- and two-digit runs, a leading zero
WellFormedStats ==
    {StatsValue(<<1, 2, 3, 4>>), StatsValue(<<10, 0, 0, 270>>),
     <<"1", "(", "2", "/", "0", "5", "/", "4", ")">>}

\* "", "abc", "1(2/3)" and "1(2/3/4) "
FixtureStrings ==
    {<<>>, <<"a", "b", "c">>, <<"1", "(", "2", "/", "3", ")">>,
     <<"1", "(", "2", "/", "3", "/", "4", ")", " ">>}

StatsStrings == WithinEdits(WellFormedStats, MaxEdits) \cup FixtureStrings

TenthsF == (0 - MaxTenthsF)..MaxTenthsF

\* _parse_stats_value(s)
CallParseStatsValue(s) ==
    /\ op = "init"
    /\ op' = "parse"
    /\ arg' = s
    /\ ret' = _parse_stats_value(s)
    /\ UNCHANGED <<listing, hubs, exc, trace>>

\* _temp_to_mk(f) for an int f
CallTempToMk(f) ==
    /\ op = "init"
    /\ op' = "temp"
    /\ arg' = f
    /\ LET mk == _temp_to_mk(PyInt(f))
       IN  /\ exc' = mk.exc
           /\ ret' = mk.v
    /\ UNCHANGED <<listing, hubs, trace>>

ParseStats == \E s \in StatsStrings : CallParseStatsValue(s)

TempToMk == \E f \in TenthsF : CallTempToMk(f)

NextHelpers == ParseStats \/ TempToMk

SpecHelpers == Init /\ [][NextHelpers]_vars

----------------------------------------------------------------------------
(* The devices on their own: a device constructed directly and its        *)
(* set_device_status called with one record after another                 *)

MaxCalls == 2

\* the addresses given to a directly constructed device
HubAddress == 1
SubDeviceAddress == 2

DeviceClasses == HubClasses \cup SubDeviceClasses

\* the model code of a class: its MODEL_CODES entry, or an unregistered code
ModelCodeOf(cls) ==
    IF \E c \in DOMAIN MODEL_CODE_MAPPING : MODEL_CODE_MAPPING[c] = cls
    THEN CHOOSE c \in DOMAIN MODEL_CODE_MAPPING : MODEL_CODE_MAPPING[c] = cls
    ELSE 999

\* the keyword arguments get_devices_for_home gives a constructor of the class
KwargsFor(cls) ==
    IF cls \in HubClasses
    THEN device_base_props(DeviceRecord(ModelCodeOf(cls), 11, HubAddress))
           @@ [subdevices |-> <<>>]
    ELSE device_base_props(DeviceRecord(ModelCodeOf(cls), 12, SubDeviceAddress))

\* "0,9,0,0,0,0|0,1291,0,0,0,0"
TimerSpecific ==
    <<"0", ",", "9", ",", "0", ",", "0", ",", "0", ",", "0", "|",
      "0", ",", "1", "2", "9", "1", ",", "0", ",", "0", ",", "0", ",", "0">>

ExampleTemp == <<781, 781, 723, 1>>
ExampleHum == <<52, 64, 50, 1>>
ExamplePress == <<10213, 10222, 10205, 1>>

\* the example payload of the class's decoder
ExampleSpecific(cls) ==
    CASE cls = "RainPointDisplayHub" -> DisplaySpecific(ExampleTemp, ExampleHum, ExamplePress)
      [] cls = "RainPointSoilMoistureSensor" -> SoilSpecific(766, 52, 31351)
      [] cls = "RainPointRainSensor" -> RainSpecific(<<270, 0, 0, 270>>)
      [] cls = "RainPointAirSensor" -> AirSpecific(<<755, 1020, 588, 1>>, <<54, 91, 24, 1>>)
      [] OTHER -> TimerSpecific

\* specific parts other than the example: fields missing, fields added,
\* tokens that are not numbers, and other payloads
OtherSpecifics(cls) ==
    CASE cls = "RainPointDisplayHub" ->
            {StatsValue(ExampleTemp) \o <<",">> \o StatsValue(ExampleHum)
                 \o <<",", "P", "=">> \o StatsValue(<<9876, 10001, 99, 0>>),
             StatsValue(ExampleTemp) \o <<",">> \o StatsValue(ExampleHum),
             DisplaySpecific(ExampleTemp, ExampleHum, ExamplePress) \o <<"x", ",", "y">>,
             <<"x", ",">> \o StatsValue(ExampleHum) \o <<",", "P", "=">> \o StatsValue(ExamplePress),
             StatsValue(<<320, 405, 7, 0>>) \o <<",", "x", ",", "P", "=">> \o StatsValue(ExamplePress),
             <<>>}
      [] cls = "RainPointSoilMoistureSensor" ->
            {SoilSpecific(320, 7, 12),
             <<"7", "6", "6", ",", "5", "2">>,
             SoilSpecific(766, 52, 31351) \o <<",", "9">>,
             <<"x", ",", "5", "2", ",", "G", "=", "1">>,
             <<"3", "2", "0", ",", "x", ",", "G", "=", "1">>,
             <<"3", "2", "0", ",", "7", ",", "G", "=", "x">>,
             <<"7", "6", "6", "\r", ",", "5", "2", "\f", ",", "G", "=", "\t", "1">>}
      [] cls = "RainPointRainSensor" ->
            {RainSpecific(<<3, 1, 2, 13>>),
             <<"R", "=", "2", "7", "0">>,
             RainSpecific(<<270, 0, 0, 270>>) \o <<",">>,
             <<>>}
      [] cls = "RainPointAirSensor" ->
            {AirSpecific(<<320, 405, 7, 0>>, <<9, 100, 0, 2>>),
             StatsValue(ExampleTemp),
             AirSpecific(ExampleTemp, ExampleHum) \o <<"x", ",", "y">>,
             <<"x", ",">> \o StatsValue(ExampleHum) \o <<",">>,
             StatsValue(<<320, 405, 7, 0>>) \o <<",", "x", ",">>}
      [] OTHER ->
            {<<>>, <<"?">>, RainSpecific(<<270, 0, 0, 270>>), <<"x", ",", "y">>}

\* general parts that are not three fields with an integer in the middle
BadGeneralParts == {<<"1", ",", "-", "5", "1">>, <<"1", ",", "x", ",", "1">>, <<>>}

\* general parts whose signal strength has whitespace around it or digits of
\* another script: -64 before a carriage return, -65 in Arabic-Indic digits
\* after a no-break space, and -66 after the separator U+001C
SpacedGeneralParts ==
    {<<"1", ",", "-", "6", "4", "\r", ",", "1">>,
     <<"1", ",", "U+00A0", "-", "U+0666", "U+0665", ",", "1">>,
     <<"1", ",", "U+001C", "-", "6", "6", ",", "1">>}

\* the values given under the device's own "Dxx" id
DValuesFor(cls) ==
    {DValue(GeneralPart(0 - 51), ExampleSpecific(cls))}
    \cup {DValue(GeneralPart(0 - 60), sp) : sp \in OtherSpecifics(cls)}
    \cup {DValue(g, ExampleSpecific(cls)) : g \in BadGeneralParts \cup SpacedGeneralParts}
    \cup {GeneralPart(0 - 62),
          DValue(GeneralPart(0 - 63), ExampleSpecific(cls)) \o <<";">>}

StateValues ==
    {<<"3", ",", "-", "5", "5">>, <<"4">>, <<"4", ",", "-", "5", "6", ",", "1">>,
     <<"4", ",", "x">>}

\* the records given to a device of the class: under its own id, under the
\* display hub's two other ids, and under an id of another device
DeviceRecordsFor(device) ==
    {StatusRecord(FormatD02(device.address).v, v) : v \in DValuesFor(device.class)}
    \cup {StatusRecord(ID_D99, DValue(GeneralPart(0 - 69), ExampleSpecific(device.class)))}
    \cup (IF device.class = "RainPointDisplayHub"
          THEN {StatusRecord(ID_state, v) : v \in StateValues}
                 \cup {StatusRecord(ID_connected, v) :
                           v \in {<<"1">>, <<"0">>, <<"a", "b", "c">>,
                                  <<"U+00A0", "1", "\r">>, <<"U+001C", "1">>}}
          ELSE {})

\* device = clazz(**kwargs)
NewDevice(cls) ==
    /\ op = "init"
    /\ \E made \in {Construct(cls, KwargsFor(cls))} :
           /\ made.exc = ""
           /\ hubs' = <<made.self>>
           /\ trace' = <<made.self>>
    /\ op' = "new"
    /\ exc' = ""
    /\ arg' = <<>>
    /\ ret' = <<>>
    /\ UNCHANGED listing

\* device.set_device_status(api_obj): arg collects the records given, ret the
\* exception each call ended with, trace the device after each call
SetDeviceStatus(api_obj) ==
    /\ op \in {"new", "set"}
    /\ Len(arg) < MaxCalls
    /\ \E done \in {set_device_status(hubs[1], api_obj)} :
           /\ hubs' = <<done.self>>
           /\ trace' = Append(trace, done.self)
           /\ ret' = Append(ret, done.exc)
           /\ exc' = done.exc
    /\ op' = "set"
    /\ arg' = Append(arg, api_obj)
    /\ UNCHANGED listing

Construction == \E cls \in DeviceClasses : NewDevice(cls)

StatusCall ==
    /\ op \in {"new", "set"}
    /\ \E api_obj \in DeviceRecordsFor(hubs[1]) : SetDeviceStatus(api_obj)

NextDecoders == Construction \/ StatusCall

SpecDecoders == Init /\ [][NextDecoders]_vars

----------------------------------------------------------------------------
(* Claims *)

IsDigitRun(s) == s # <<>> /\ \A i \in 1..Len(s) : IsDigit(s[i])

\* c is the decimal digit, of any script, that the ASCII digit a is
SameDigit(c, a) ==
    \E b \in 1..Len(Digits) : \E k \in 1..10 : Digits[b][k] = c /\ AsciiDigits[k] = a

\* the decimal numeral of n is the run r without its leading zeros
IsValueOf(n, r) ==
    \E z \in 0..(Len(r) - 1) :
        /\ \A i \in 1..z : SameDigit(r[i], "0")
        /\ Len(r) - z = Len(NatToStr(n))
        /\ \A i \in 1..(Len(r) - z) : SameDigit(r[z + i], NatToStr(n)[i])

\* s is a(b/c/d) for the runs of digits at 1..i, i+2..j, j+2..k, k+2..Len(s)-1
IsStatsShape(s, i, j, k) ==
    /\ IsDigitRun(SubSeq(s, 1, i)) /\ s[i + 1] = "("
    /\ IsDigitRun(SubSeq(s, i + 2, j)) /\ s[j + 1] = "/"
    /\ IsDigitRun(SubSeq(s, j + 2, k)) /\ s[k + 1] = "/"
    /\ IsDigitRun(SubSeq(s, k + 2, Len(s) - 1)) /\ s[Len(s)] = ")"

\* C5: _parse_stats_value returns the four integers a, b, c, d exactly for
\* the strings that are a digit run, "(", a digit run, "/", a digit run, "/",
\* a digit run and ")" with nothing before or after, and four nulls for
\* every other string, among them "", "abc", "1(2/3)" and "1(2/3/4) "
C5_ParseStatsValueExact ==
    op = "parse" =>
        /\ \A i, j, k \in {x \in 1..(Len(arg) - 2) : arg[x + 1] \in {"(", "/"}} :
              (i < j /\ j < k /\ IsStatsShape(arg, i, j, k)) =>
                  /\ \A n \in 1..4 : Len(ret[n]) = 1
                  /\ IsValueOf(ret[1][1], SubSeq(arg, 1, i))
                  /\ IsValueOf(ret[2][1], SubSeq(arg, i + 2, j))
                  /\ IsValueOf(ret[3][1], SubSeq(arg, j + 2, k))
                  /\ IsValueOf(ret[4][1], SubSeq(arg, k + 2, Len(arg) - 1))
        /\ (~\E i, j, k \in {x \in 1..(Len(arg) - 2) : arg[x + 1] \in {"(", "/"}} :
                i < j /\ j < k /\ IsStatsShape(arg, i, j, k))
              => ret = <<None, None, None, None>>
        /\ arg \in FixtureStrings => ret = <<None, None, None, None>>

\* C5 witness: "1(2/3/4) ", a well-formed value followed by a space, gave four nulls
C5_Witness ==
    /\ op = "parse"
    /\ arg = <<"1", "(", "2", "/", "3", "/", "4", ")", " ">>
    /\ ret = <<None, None, None, None>>

\* "1(2/05/4)" gave (1, 2, 5, 4)
C5_WitnessMatch ==
    /\ op = "parse"
    /\ arg = <<"1", "(", "2", "/", "0", "5", "/", "4", ")">>
    /\ ret = <<<<1>>, <<2>>, <<5>>, <<4>>>>

\* C9: for every integer v of tenths of a degree Fahrenheit in the range,
\* _temp_to_mk(v) is the integer nearest to 273150 + (v - 320) * 5000 / 9 / 10
\* (at most one half away from it), and _temp_to_mk(320) = 273150
C9_TempToMkNearest ==
    op = "temp" =>
        /\ exc = ""
        /\ LET d == 9 * (ret - 273150) - (arg - 320) * 500
           IN  2 * d <= 9 /\ 2 * d >= 0 - 9
        /\ arg = 320 => ret = 273150

\* C9 witness: a value that is rounded up, 781 tenths of a degree to 298761
C9_Witness == op = "temp" /\ arg = 781 /\ ret = 298761

----------------------------------------------------------------------------
(* Claims about get_devices_for_home *)

\* the listing record r became the object o
SameDevice(o, r) ==
    /\ o.did = r.did
    /\ o.model_code = r.modelCode
    /\ o.name = r.name
    /\ o.model = r.model
    /\ o.mid = r.mid

IsRegistered(r) == r.modelCode \in DOMAIN MODEL_CODE_MAPPING

IsKept(r) == r.did # 1 /\ IsRegistered(r)

\* subdevices is the sequence of the records of subs that are kept, in their order
MirrorsKept(subdevices, subs) ==
    LET kept == SelectSeq(subs, IsKept)
    IN  /\ Len(subdevices) = Len(kept)
        /\ \A k \in 1..Len(kept) : SameDevice(subdevices[k], kept[k])

\* C3: for every device listing get_devices_for_home returns one hub per hub
\* record, in input order, and each hub's subdevices are the input
\* subDevices without the entries with did 1 and the entries with an
\* unregistered modelCode, the others in input order
C3_TreeMirrorsListing ==
    op = "devices" =>
        /\ exc = ""
        /\ Len(hubs) = Len(listing)
        /\ \A h \in 1..Len(listing) :
              /\ SameDevice(hubs[h], listing[h])
              /\ HasAttr(hubs[h], "subdevices")
              /\ MirrorsKept(hubs[h].subdevices, listing[h].subDevices)

\* the attributes of the plain hub: no reading but rf_rssi
GenericHubAttrs ==
    {"class", "model", "model_code", "name", "did", "mid", "alerts", "address",
     "rf_rssi", "subdevices"}

\* C4: an unrecognized modelCode never fails the fetch: a hub record with
\* one is returned as the plain hub (address 1, no model-specific field, its
\* sub-devices attached), a sub-device record with one is dropped, and the
\* other hubs and sub-devices of the listing are returned
C4_UnknownModelNeverFailsFetch ==
    (op = "devices" /\ \E h \in 1..Len(listing) :
          \/ ~IsRegistered(listing[h])
          \/ \E k \in 1..Len(listing[h].subDevices) : ~IsRegistered(listing[h].subDevices[k]))
      =>
        /\ exc = ""
        /\ Len(hubs) = Len(listing)
        /\ \A h \in 1..Len(listing) :
              /\ SameDevice(hubs[h], listing[h])
              /\ HasAttr(hubs[h], "subdevices")
              /\ MirrorsKept(hubs[h].subdevices, listing[h].subDevices)
              /\ ~IsRegistered(listing[h]) =>
                    /\ hubs[h].class = "HomgarHubDevice"
                    /\ hubs[h].address = Some(1)
                    /\ DOMAIN hubs[h] = GenericHubAttrs

\* What does hold of the fetch: it raises only on a sub-device record that
\* is kept and carries the model code of a hub class, and a hub record with
\* an unknown model code is the plain hub whenever the fetch returns
FetchFailsOnlyOnHubClassSubDevice ==
    op = "devices" =>
        /\ exc # "" =>
              \E h \in 1..Len(listing) : \E k \in 1..Len(listing[h].subDevices) :
                  LET r == listing[h].subDevices[k]
                  IN  IsKept(r) /\ MODEL_CODE_MAPPING[r.modelCode] \in HubClasses
        /\ exc = "" =>
              \A h \in 1..Len(listing) :
                  ~IsRegistered(listing[h]) =>
                      /\ hubs[h].class = "HomgarHubDevice"
                      /\ DOMAIN hubs[h] = GenericHubAttrs
                      /\ MirrorsKept(hubs[h].subdevices, listing[h].subDevices)

----------------------------------------------------------------------------
(* Claims about get_device_status *)

MaxRssi == 90

RssiValues == (0 - MaxRssi)..0

IsPrefix(p, s) == Len(p) <= Len(s) /\ SubSeq(s, 1, Len(p)) = p

\* the records of the last get_device_status that were handled, the one that raised included
Handled == IF op = "status" THEN 1..(Len(trace) - 1) ELSE {}

Rec(i) == arg.records[i]
Before(i) == trace[i]
After(i) == trace[i + 1]
Raised(i) == exc # "" /\ i = Len(trace) - 1

IsHub(o) == o.class \in HubClasses /\ HasAttr(o, "subdevices")

NoSubDeviceAt(hub, address) ==
    \A k \in 1..Len(hub.subdevices) : hub.subdevices[k].address # Some(address)

\* C1: for every hub, the plain hub or the display hub, with no sub-device
\* at address 1, a record with id "D01" is applied to the hub itself, so
\* that afterwards its rf_rssi is the middle field of the general part
C1_D01ReachesEveryHub ==
    \A i \in Handled :
        (/\ IsHub(Before(i))
         /\ NoSubDeviceAt(Before(i), 1)
         /\ Rec(i).id = ID_D01)
          => \A n \in RssiValues :
                 IsPrefix(GeneralPart(n) \o <<";">>, Rec(i).value)
                   => After(i).rf_rssi = Some(n)

\* What does hold: the display hub takes the "D01" record
D01ReachesDisplayHub ==
    \A i \in Handled :
        (/\ IsHub(Before(i))
         /\ Before(i).class = "RainPointDisplayHub"
         /\ NoSubDeviceAt(Before(i), 1)
         /\ Rec(i).id = ID_D01)
          => \A n \in RssiValues :
                 IsPrefix(GeneralPart(n) \o <<";">>, Rec(i).value)
                   => After(i).rf_rssi = Some(n)

\* no device of the hub's tree declares the status id
Undeclared(hub, status_id) ==
    \A p \in 1..Len(DevicesOf(hub)) : ~Declares(DevicesOf(hub), p, status_id)

\* C2: a status record whose id no device of the tree declares raises no
\* error and leaves every field of every device of the tree as it was,
\* whatever its value is
C2_UndeclaredIdIgnored ==
    \A i \in Handled :
        (IsHub(Before(i)) /\ Undeclared(Before(i), Rec(i).id))
          => After(i) = Before(i) /\ ~Raised(i)

\* C2 witness: after a record that changed the tree, "D99" with the value
\* "?" was handled and nothing changed
C2_Witness ==
    /\ op = "status"
    /\ exc = ""
    /\ Len(trace) = 3
    /\ trace[2] # trace[1]
    /\ Rec(2) = StatusRecord(ID_D99, <<"?">>)
    /\ Undeclared(trace[2], ID_D99)
    /\ trace[3] = trace[2]

\* the display hub itself takes the records with id "D01"
TakesD01(hub) ==
    IsHub(hub) /\ hub.class = "RainPointDisplayHub" /\ NoSubDeviceAt(hub, 1)

\* the value of x as _temp_to_mk gives it
Mk(x) == Some(_temp_to_mk(PyInt(x)).v)

\* C6: a "D01" record with the specific part
\* "t(tmax/tmin/ttr),h(hmax/hmin/htr),P=p(pmax/pmin/ptr)," applied to a
\* display hub sets the temperature fields to _temp_to_mk of t, tmax, tmin
\* and ttr, the humidity fields to h, hmax, hmin and htr and the pressure
\* fields to p, pmax, pmin and ptr; the payload
\* 781(781/723/1),52(64/50/1),P=10213(10222/10205/1), gives humidity
\* (52, 64, 50, 1) and pressure (10213, 10222, 10205, 1)
C6_DisplayHubDecode ==
    \A i \in {x \in Handled : Rec(x).id = ID_D01 /\ TakesD01(Before(x))} :
      \A n \in RssiValues : \A r \in DisplayReadings :
        Rec(i).value = DValue(GeneralPart(n), DisplaySpecific(r[1], r[2], r[3]))
          => LET hub == After(i)
                 t == r[1]
                 h == r[2]
                 p == r[3]
             IN  /\ ~Raised(i)
                 /\ hub.temp_mk_current = Mk(t[1]) /\ hub.temp_mk_daily_max = Mk(t[2])
                 /\ hub.temp_mk_daily_min = Mk(t[3]) /\ hub.temp_trend = Mk(t[4])
                 /\ hub.hum_current = Some(h[1]) /\ hub.hum_daily_max = Some(h[2])
                 /\ hub.hum_daily_min = Some(h[3]) /\ hub.hum_trend = Some(h[4])
                 /\ hub.press_pa_current = Some(p[1]) /\ hub.press_pa_daily_max = Some(p[2])
                 /\ hub.press_pa_daily_min = Some(p[3]) /\ hub.press_trend = Some(p[4])
                 /\ t = <<781, 781, 723, 1>> =>
                       /\ <<hub.hum_current, hub.hum_daily_max, hub.hum_daily_min, hub.hum_trend>>
                            = <<<<52>>, <<64>>, <<50>>, <<1>>>>
                       /\ <<hub.press_pa_current, hub.press_pa_daily_max,
                            hub.press_pa_daily_min, hub.press_trend>>
                            = <<<<10213>>, <<10222>>, <<10205>>, <<1>>>>

\* C6 witness: the display hub took the payload of the example
C6_Witness ==
    /\ op = "status"
    /\ exc = ""
    /\ Len(trace) = 2
    /\ TakesD01(trace[1])
    /\ Rec(1) = StatusRecord(ID_D01, DValue(GeneralPart(0 - 51),
           DisplaySpecific(<<781, 781, 723, 1>>, <<52, 64, 50, 1>>, <<10213, 10222, 10205, 1>>)))
    /\ trace[2].temp_mk_current = <<298761>>
    /\ trace[2].hum_current = <<52>>
    /\ trace[2].press_pa_current = <<10213>>

\* device p of the hub's tree is the one a record with this id is applied to:
\* the last device whose address gives the id
TakesId(hub, p, status_id) ==
    /\ Declares(DevicesOf(hub), p, status_id)
    /\ \A q \in (p + 1)..Len(DevicesOf(hub)) : ~Declares(DevicesOf(hub), q, status_id)

\* C7: a D-record with the specific part "R=a(b/c/d)" applied to a rain
\* sensor sets total, hour, daily and 7-day rainfall to a/10, b/10, c/10 and
\* d/10 millimetres; "R=270(0/0/270)" gives 27.0, 0.0, 0.0 and 27.0
C7_RainSensorDecode ==
    \A i \in Handled :
      \A p \in {x \in 1..(IF IsHub(Before(i)) THEN Len(DevicesOf(Before(i))) ELSE 0) :
                  /\ DevicesOf(Before(i))[x].class = "RainPointRainSensor"
                  /\ TakesId(Before(i), x, Rec(i).id)} :
        \A n \in RssiValues : \A r \in RainReadings :
            Rec(i).value = DValue(GeneralPart(n), RainSpecific(r))
              => LET sensor == DevicesOf(After(i))[p]
                 IN  /\ ~Raised(i)
                     /\ HasAttr(sensor, "rainfall_mm_7days")
                     /\ sensor.rainfall_mm_total = <<r[1], 10>>
                     /\ sensor.rainfall_mm_hour = <<r[2], 10>>
                     /\ sensor.rainfall_mm_daily = <<r[3], 10>>
                     /\ sensor.rainfall_mm_7days = <<r[4], 10>>
                     /\ r = <<270, 0, 0, 270>> =>
                           <<sensor.rainfall_mm_total, sensor.rainfall_mm_hour,
                             sensor.rainfall_mm_daily, sensor.rainfall_mm_7days>>
                             = <<<<270, 10>>, <<0, 10>>, <<0, 10>>, <<270, 10>>>>

\* C7 witness: the rain sensor at address 3 took "R=270(0/0/270)"
C7_Witness ==
    /\ op = "status"
    /\ exc = ""
    /\ Len(trace) = 2
    /\ IsHub(trace[1])
    /\ Len(trace[1].subdevices) = 1
    /\ trace[1].subdevices[1].class = "RainPointRainSensor"
    /\ Rec(1) = StatusRecord(ID_D03, DValue(GeneralPart(0 - 70), RainSpecific(<<270, 0, 0, 270>>)))
    /\ trace[2].subdevices[1].rainfall_mm_total = <<270, 10>>
    /\ trace[2].subdevices[1].rainfall_mm_7days = <<270, 10>>

\* C8: for the display hub a record with id "connected" sets connected to
\* true when its value is "1" and to false for every other value, without
\* raising and without changing any other field
C8_ConnectedOnlyForOne ==
    \A i \in Handled :
        (IsHub(Before(i)) /\ Before(i).class = "RainPointDisplayHub" /\ Rec(i).id = ID_connected)
          => /\ ~Raised(i)
             /\ After(i) = [Before(i) EXCEPT !.connected = Some(Rec(i).value = <<"1">>)]

\* C8 as amended: the value is read as an integer. When it is the text of
\* an integer (a sign and surrounding whitespace allowed) connected becomes
\* whether that integer is 1 and no other field changes; any other value
\* raises ValueError and changes no field at all
C8_ConnectedIsIntEqualsOne ==
    \A i \in Handled :
        (IsHub(Before(i)) /\ Before(i).class = "RainPointDisplayHub" /\ Rec(i).id = ID_connected)
          => LET n == IntOfStr(Rec(i).value)
             IN  IF n.exc = ""
                 THEN /\ ~Raised(i)
                      /\ After(i) = [Before(i) EXCEPT !.connected = Some(n.v = 1)]
                 ELSE /\ Raised(i)
                      /\ exc = "ValueError"
                      /\ After(i) = Before(i)

\* C8 witness: after "connected" = "1", "connected" = "abc" raised and the
\* display hub stayed connected
C8_Witness ==
    /\ op = "status"
    /\ exc = "ValueError"
    /\ Len(trace) = 3
    /\ trace[1].class = "RainPointDisplayHub"
    /\ Rec(1) = StatusRecord(ID_connected, <<"1">>)
    /\ Rec(2) = StatusRecord(ID_connected, <<"a", "b", "c">>)
    /\ trace[1].connected = None
    /\ trace[2].connected = <<TRUE>>
    /\ trace[3].connected = <<TRUE>>

\* the decoded reading fields of a device of the class
ReadingFields(class) ==
    {"rf_rssi"} \cup
    CASE class = "RainPointDisplayHub" ->
            {"wifi_rssi", "battery_state", "connected",
             "temp_mk_current", "temp_mk_daily_max", "temp_mk_daily_min", "temp_trend",
             "hum_current", "hum_daily_max", "hum_daily_min", "hum_trend",
             "press_pa_current", "press_pa_daily_max", "press_pa_daily_min", "press_trend"}
      [] class = "RainPointSoilMoistureSensor" ->
            {"temp_mk_current", "moist_percent_current", "light_lux_current"}
      [] class = "RainPointRainSensor" ->
            {"rainfall_mm_total", "rainfall_mm_hour", "rainfall_mm_daily", "rainfall_mm_7days"}
      [] class = "RainPointAirSensor" ->
            {"temp_mk_current", "temp_mk_daily_max", "temp_mk_daily_min", "temp_trend",
             "hum_current", "hum_daily_max", "hum_daily_min", "hum_trend"}
      [] OTHER -> {}

ReadingsAreNull(device) ==
    \A f \in ReadingFields(device.class) : HasAttr(device, f) /\ device[f] = None

\* the devices of a returned list: each element and, when it has some, its sub-devices
AllDevices(hs) ==
    {hs[h] : h \in 1..Len(hs)}
    \cup UNION {{hs[h].subdevices[k] : k \in 1..Len(hs[h].subdevices)} :
                    h \in {x \in 1..Len(hs) : HasAttr(hs[x], "subdevices")}}

\* C10: from its construction by get_devices_for_home until the first
\* successful decode of a status record for it, every decoded reading field
\* of a device is present and null
C10_ReadingsNullUntilDecoded ==
    /\ (op = "devices" /\ exc = "") => \A d \in AllDevices(hubs) : ReadingsAreNull(d)
    /\ op = "status" =>
          \A p \in 1..(IF IsHub(trace[1]) THEN Len(DevicesOf(trace[1])) ELSE 1) :
              (\A i \in Handled : TakesId(Before(i), p, Rec(i).id) => Raised(i))
                => ReadingsAreNull(IF p = 1 THEN hubs[arg.hub]
                                   ELSE hubs[arg.hub].subdevices[p - 1])

----------------------------------------------------------------------------
(* Claims about the order of the records of a status response *)

\* the orders in which n records can be given
OrdersOf(n) ==
    {f \in [1..n -> 1..n] : \A a, b \in 1..n : a # b => f[a] # f[b]}

Permuted(records, f) == [k \in 1..Len(records) |-> records[f[k]]]

DistinctIds(records) ==
    \A a, b \in 1..Len(records) : a # b => records[a].id # records[b].id

\* the tree the last get_device_status started from, and the one it left
TreeBefore == trace[1]
TreeAfter == hubs[arg.hub]

\* the same records, in the order f, applied to the tree the call started
\* from leave the tree as the call left it
SameInOrder(f) ==
    get_device_status(TreeBefore, Permuted(arg.records, f)).hub = TreeAfter

\* the same records applied once more leave the tree as it is
SameWhenRepeated == get_device_status(TreeAfter, arg.records).hub = TreeAfter

\* C12: for a fixed device tree and records with pairwise distinct ids,
\* get_device_status leaves the same fields on every device whatever the
\* order of the records is, and leaves the tree as it is when the same
\* records are applied a second time
C12_OrderIndependentAndIdempotent ==
    (op = "status" /\ IsHub(TreeBefore) /\ DistinctIds(arg.records))
      => /\ \A f \in OrdersOf(Len(arg.records)) : SameInOrder(f)
         /\ SameWhenRepeated

\* What does hold: the order does not matter when no record raises, in
\* either order, and a second application changes nothing in any case
OrderIndependentUnlessRaised ==
    (op = "status" /\ IsHub(TreeBefore) /\ DistinctIds(arg.records))
      => /\ \A f \in OrdersOf(Len(arg.records)) :
                (exc = "" /\ get_device_status(TreeBefore, Permuted(arg.records, f)).exc = "")
                  => SameInOrder(f)
         /\ SameWhenRepeated

----------------------------------------------------------------------------
(* Claims about set_device_status on one device *)

\* the calls of set_device_status made on the device so far
Calls == IF op = "set" THEN 1..Len(arg) ELSE {}

CallRec(i) == arg[i]
DeviceBefore(i) == trace[i]
DeviceAfter(i) == trace[i + 1]
CallRaised(i) == ret[i] # ""

\* the record carries the device's own "Dxx" id
HasOwnId(device, api_obj) == api_obj.id = FormatD02(device.address).v

HasNo(s, c) == \A k \in 1..Len(s) : s[k] # c

\* value is "<general>;<specific>" with the general part "1,<n>,1" and a
\* specific part, which is whatever follows the one ";"
IsGeneralThenSpecific(value, n) ==
    /\ IsPrefix(GeneralPart(n) \o <<";">>, value)
    /\ HasNo(Slice(value, Len(GeneralPart(n)) + 1), ";")

\* the classes whose decoder of the specific part is a pass
UndecodedClasses == {"RainPoint2ZoneTimer", "HomgarHubDevice", "HomgarSubDevice"}

\* C11: for the 2-zone water timer, the plain hub and the plain sub-device,
\* a D-record with a well-formed general part and any specific part never
\* raises and changes no field of the device other than rf_rssi
C11_UndecodedSpecificIsNoOp ==
    \A i \in Calls :
        (/\ DeviceBefore(i).class \in UndecodedClasses
         /\ HasOwnId(DeviceBefore(i), CallRec(i)))
          => \A n \in RssiValues :
                 IsGeneralThenSpecific(CallRec(i).value, n)
                   => /\ ~CallRaised(i)
                      /\ DeviceAfter(i) = [DeviceBefore(i) EXCEPT !.rf_rssi = Some(n)]

\* C11 witness: a 2-zone timer whose rf_rssi was -60 took the payload
\* "0,9,0,0,0,0|0,1291,0,0,0,0" with rf_rssi -51
C11_Witness ==
    /\ op = "set"
    /\ Len(arg) = 2
    /\ trace[1].class = "RainPoint2ZoneTimer"
    /\ trace[2].rf_rssi = <<0 - 60>>
    /\ HasOwnId(trace[2], arg[2])
    /\ arg[2].value = DValue(GeneralPart(0 - 51), TimerSpecific)
    /\ ret[2] = ""
    /\ trace[3] = [trace[2] EXCEPT !.rf_rssi = <<0 - 51>>]

\* an optional sign and then digits only
IsSignedDigitRun(s) ==
    \/ IsDigitRun(s)
    \/ Len(s) >= 2 /\ s[1] \in {"+", "-"} /\ IsDigitRun(Tail(s))

\* a token that is an integer: an optional sign and then digits only, with
\* or without whitespace around it
IsIntToken(s) == IsSignedDigitRun(IntStrip(s))

\* the number of comma-separated fields of s, and whether the last is empty
FieldCount(s) == Len(Split(s, ","))
EndsWithComma(s) == s # <<>> /\ s[Len(s)] = ","

\* the specific part has the number of fields of its model's payload: three
\* for the display hub and two for the air sensor, each with or without the
\* comma that ends the observed payloads, three for the soil sensor and one
\* for the rain sensor
HasFieldCountOfModel(class, sp) ==
    CASE class = "RainPointDisplayHub" ->
             FieldCount(sp) = 3 \/ (FieldCount(sp) = 4 /\ EndsWithComma(sp))
      [] class = "RainPointAirSensor" ->
             FieldCount(sp) = 2 \/ (FieldCount(sp) = 3 /\ EndsWithComma(sp))
      [] class = "RainPointSoilMoistureSensor" -> FieldCount(sp) = 3
      [] class = "RainPointRainSensor" -> FieldCount(sp) = 1
      [] OTHER -> TRUE

\* the specific part has at least the fields its model's decoder reads
HasFieldsRead(class, sp) ==
    CASE class = "RainPointDisplayHub" -> FieldCount(sp) >= 3
      [] class = "RainPointAirSensor" -> FieldCount(sp) >= 2
      [] class = "RainPointSoilMoistureSensor" -> FieldCount(sp) = 3
      [] class = "RainPointRainSensor" -> FieldCount(sp) = 1
      [] OTHER -> TRUE

\* a token that is not an integer stands where the soil sensor reads one
SoilTokenNotInt(sp) ==
    LET parts == Split(sp, ",")
    IN  /\ Len(parts) = 3
        /\ \/ ~IsIntToken(parts[1])
           \/ ~IsIntToken(parts[2])
           \/ ~IsIntToken(Slice(parts[3], 2))

\* the general part is three fields with an integer in the middle
IsGeneralPart(g) ==
    LET parts == Split(g, ",")
    IN  Len(parts) = 3 /\ IsIntToken(parts[2])

\* the value of a "Dxx" record is malformed for a device of the class, the
\* number of fields of the specific part judged by CountOk
MalformedDValue(class, value, CountOk(_, _)) ==
    LET parts == Split(value, ";")
    IN  \/ Len(parts) # 2
        \/ Len(parts) = 2 /\ ~IsGeneralPart(parts[1])
        \/ Len(parts) = 2 /\ ~CountOk(class, parts[2])
        \/ Len(parts) = 2 /\ class = "RainPointSoilMoistureSensor"
              /\ SoilTokenNotInt(parts[2])

\* the value of a "state" record is not two integers
MalformedState(value) ==
    LET parts == Split(value, ",")
    IN  Len(parts) # 2 \/ \E k \in 1..Len(parts) : ~IsIntToken(parts[k])

\* the record is malformed for the device it is given to
Malformed(device, api_obj, CountOk(_, _)) ==
    \/ HasOwnId(device, api_obj) /\ MalformedDValue(device.class, api_obj.value, CountOk)
    \/ device.class = "RainPointDisplayHub" /\ api_obj.id = ID_state
          /\ MalformedState(api_obj.value)
    \/ device.class = "RainPointDisplayHub" /\ api_obj.id = ID_connected
          /\ ~IsIntToken(api_obj.value)

HumFields == {"hum_current", "hum_daily_max", "hum_daily_min", "hum_trend"}
PressFields == {"press_pa_current", "press_pa_daily_max", "press_pa_daily_min", "press_trend"}

\* the fields whose text in the specific part _parse_stats_value does not match
UnmatchedFields(class, sp) ==
    LET parts == Split(sp, ",")
    IN  (IF /\ class \in {"RainPointDisplayHub", "RainPointAirSensor"}
            /\ Len(parts) >= 2
            /\ STATS_VALUE_REGEX_fullmatch(parts[2]) = <<>>
         THEN HumFields ELSE {})
        \cup (IF /\ class = "RainPointDisplayHub"
                 /\ Len(parts) >= 3
                 /\ STATS_VALUE_REGEX_fullmatch(Slice(parts[3], 2)) = <<>>
              THEN PressFields ELSE {})

\* the reading fields a "Dxx" record of the class carries
DFields(class) == ReadingFields(class) \ {"wifi_rssi", "battery_state", "connected"}

\* after a "Dxx" record that was accepted, a field it carries is null only
\* where _parse_stats_value did not match
NullOnlyWhereUnmatched(i) ==
    (HasOwnId(DeviceBefore(i), CallRec(i)) /\ ~CallRaised(i))
      => \A f \in DFields(DeviceAfter(i).class) :
             \/ HasAttr(DeviceAfter(i), f) /\ DeviceAfter(i)[f] # None
             \/ f \in UnmatchedFields(DeviceAfter(i).class, Split(CallRec(i).value, ";")[2])

\* C13: every decoder raises on malformed input: a D-value that is not a
\* general and a specific part, a general part that is not three fields, a
\* specific part with the wrong number of fields for its model, a "state"
\* value that is not two fields, a token that is not a number where an
\* integer is expected; a field is left null without an error only where
\* _parse_stats_value does not match
C13_MalformedInputRaises ==
    \A i \in Calls :
        /\ Malformed(DeviceBefore(i), CallRec(i), HasFieldCountOfModel) => CallRaised(i)
        /\ NullOnlyWhereUnmatched(i)

\* What does hold: the same with "at least the fields the decoder reads" in
\* place of "the number of fields of the model"
MalformedInputRaisesUnlessSurplus ==
    \A i \in Calls :
        /\ Malformed(DeviceBefore(i), CallRec(i), HasFieldsRead) => CallRaised(i)
        /\ NullOnlyWhereUnmatched(i)

\* C14: when applying a record to a device ends in a decode failure, every
\* field of the device, rf_rssi and the readings of the same payload
\* included, has the value it had before the record was applied
C14_FailedDecodeLeavesDeviceAsBefore ==
    \A i \in Calls : CallRaised(i) => DeviceAfter(i) = DeviceBefore(i)

\* What does hold: a value that fails in the split on ";" or in the general
\* part has assigned nothing when it raises
FailedBeforeFirstAssignmentLeavesDeviceAsBefore ==
    \A i \in Calls :
        (/\ CallRaised(i)
         /\ HasOwnId(DeviceBefore(i), CallRec(i))
         /\ \/ Len(Split(CallRec(i).value, ";")) # 2
            \/ ~IsGeneralPart(Split(CallRec(i).value, ";")[1]))
          => DeviceAfter(i) = DeviceBefore(i)

----------------------------------------------------------------------------
(* Claims about a status response with a record that fails to decode *)

\* the tree after every record from record i on was handed to its device,
\* a record that fails being passed over with whatever it assigned
RECURSIVE ApplyEach(_, _, _)
ApplyEach(hub, records, i) ==
    IF i > Len(records) THEN hub
    ELSE ApplyEach(
             HandleStatus(hub, IdMapGet(DevicesOf(hub), records[i].id), records[i]).hub,
             records, i + 1)

\* some record of the response fails on the tree as the records before it left it
RECURSIVE SomeRecordFails(_, _, _)
SomeRecordFails(hub, records, i) ==
    /\ i <= Len(records)
    /\ \/ HandleStatus(hub, IdMapGet(DevicesOf(hub), records[i].id), records[i]).exc # ""
       \/ SomeRecordFails(
              HandleStatus(hub, IdMapGet(DevicesOf(hub), records[i].id), records[i]).hub,
              records, i + 1)

\* C15: when a record of a status response fails to decode, the failure is
\* reported to the caller and every other record of the response whose id
\* has an owning device, before or after the failing one, is still applied
C15_OtherRecordsStillApplied ==
    (op = "status" /\ IsHub(TreeBefore))
      => /\ SomeRecordFails(TreeBefore, arg.records, 1) => exc # ""
         /\ TreeAfter = ApplyEach(TreeBefore, arg.records, 1)

\* What does hold: the failure is reported, the records before the failing
\* one are applied and the ones after it are not looked at
RecordsUpToFailureApplied ==
    (op = "status" /\ IsHub(TreeBefore))
      => /\ SomeRecordFails(TreeBefore, arg.records, 1) <=> exc # ""
         /\ TreeAfter = ApplyEach(TreeBefore, SubSeq(arg.records, 1, Len(trace) - 1), 1)
         /\ exc = "" => Len(trace) - 1 = Len(arg.records)

\* the fields of a display hub that the records with the status id set
OwnedFields(status_id) ==
    CASE status_id = ID_state -> {"battery_state", "wifi_rssi"}
      [] status_id = ID_connected -> {"connected"}
      [] OTHER -> DFields("RainPointDisplayHub")

\* the device without the sub-devices it holds
Own(device) == [f \in DOMAIN device \ {"subdevices"} |-> device[f]]

\* the device of the tree that record i was handed to
Owner(i) == IdMapGet(DevicesOf(Before(i)), Rec(i).id)

\* C16: a failed decode of a record with one status id never changes the
\* fields owned by another status id: on a display hub a failing "state" or
\* "connected" record leaves rf_rssi and the temperature, humidity and
\* pressure fields as they were, a failing "D01" record leaves battery_state,
\* wifi_rssi and connected as they were, and a failing record for one device
\* leaves every other device of the tree as it was
C16_FailedDecodeKeepsOtherIdsFields ==
    \A i \in Handled :
        (Raised(i) /\ IsHub(Before(i)))
          => /\ \A q \in 1..Len(DevicesOf(Before(i))) :
                    q # Owner(i) => Own(DevicesOf(After(i))[q]) = Own(DevicesOf(Before(i))[q])
             /\ (Owner(i) = 1 /\ Before(i).class = "RainPointDisplayHub")
                  => \A f \in ReadingFields("RainPointDisplayHub") \ OwnedFields(Rec(i).id) :
                         After(i)[f] = Before(i)[f]

\* C16 witness: on a tree of a display hub and a sub-device a "state" record
\* was applied to the hub, and then a "D01" record failed on the hub after
\* it had set rf_rssi: battery_state and wifi_rssi are as the first record
\* left them
C16_Witness ==
    /\ op = "status"
    /\ exc # ""
    /\ Len(trace) = 3
    /\ trace[1].class = "RainPointDisplayHub"
    /\ Len(trace[1].subdevices) = 1
    /\ Rec(1).id = ID_state
    /\ Rec(2).id = ID_D01
    /\ Owner(2) = 1
    /\ trace[2].rf_rssi = None
    /\ trace[3].rf_rssi = <<-58>>
    /\ trace[3].battery_state = <<3>>
    /\ trace[3].wifi_rssi = <<-55>>

----------------------------------------------------------------------------
(* Claims about the device a status record goes to *)

\* device p of the tree as record i found it and as it left it
DeviceOfBefore(i, p) == Own(DevicesOf(Before(i))[p])
DeviceOfAfter(i, p) == Own(DevicesOf(After(i))[p])

\* C17: each status id maps to exactly one device, so a record is applied to
\* at most one device; when two devices of the tree declare the same id, the
\* hub coming first and then the sub-devices in sequence order, a record with
\* that id is applied to the later device only and the earlier device's
\* fields stay as they were
C17_RecordGoesToLastDeclarer ==
    \A i \in Handled :
        IsHub(Before(i))
          => \A p \in 1..Len(DevicesOf(Before(i))) :
                 IF TakesId(Before(i), p, Rec(i).id)
                 THEN DeviceOfAfter(i, p)
                        = Own(set_device_status(DevicesOf(Before(i))[p], Rec(i)).self)
                 ELSE DeviceOfAfter(i, p) = DeviceOfBefore(i, p)

\* C17 witness: a soil sensor and then an air sensor, both at address 2; a
\* "D02" record with an air sensor's payload was applied to the air sensor
\* and the soil sensor, which declares "D02" as well, has every reading null
C17_Witness ==
    /\ op = "status"
    /\ exc = ""
    /\ Len(trace) = 2
    /\ Len(trace[1].subdevices) = 2
    /\ trace[1].subdevices[1].class = "RainPointSoilMoistureSensor"
    /\ trace[1].subdevices[2].class = "RainPointAirSensor"
    /\ Declares(DevicesOf(trace[1]), 2, ID_D02)
    /\ Declares(DevicesOf(trace[1]), 3, ID_D02)
    /\ Rec(1).id = ID_D02
    /\ trace[2].subdevices[2].rf_rssi = <<-67>>
    /\ trace[2].subdevices[2].hum_current = <<54>>
    /\ ReadingsAreNull(trace[2].subdevices[1])

----------------------------------------------------------------------------
(* Claims about the roles of the devices of the tree *)

\* a hub-role device: a hub class at address 1 that owns a subdevices
\* sequence and that get_device_status accepts
IsHubRole(o) ==
    /\ o.class \in HubClasses
    /\ o.address = Some(1)
    /\ HasAttr(o, "subdevices")
    /\ get_device_status(o, <<>>).exc = ""

\* a sub-device-role device: a sub-device class with a port number and no
\* subdevices of its own
IsSubDeviceRole(o) ==
    /\ o.class \in SubDeviceClasses
    /\ HasAttr(o, "port_number")
    /\ ~HasAttr(o, "subdevices")

\* the model code is registered for a class of the set
RegisteredFor(record, classes) ==
    /\ record.modelCode \in DOMAIN MODEL_CODE_MAPPING
    /\ MODEL_CODE_MAPPING[record.modelCode] \in classes

\* C18: device-tree construction preserves roles: get_devices_for_home does
\* not raise, every element of the list it returns is a hub-role device and
\* every element of a subdevices sequence is a sub-device-role device, also
\* when a hub record carries a model code registered for a sub-device class
\* or a sub-device record the model code registered for a hub class
C18_RolesPreserved ==
    op = "devices" =>
        /\ exc = ""
        /\ \A h \in 1..Len(hubs) :
              /\ IsHubRole(hubs[h])
              /\ \A k \in 1..Len(hubs[h].subdevices) : IsSubDeviceRole(hubs[h].subdevices[k])

\* What does hold: the same for the listings in which no hub record carries
\* a sub-device class's model code and no sub-device record a hub class's
RolesPreservedWhenCodesFitRoles ==
    (/\ op = "devices"
     /\ \A h \in 1..Len(listing) :
           /\ ~RegisteredFor(listing[h], SubDeviceClasses)
           /\ \A k \in 1..Len(listing[h].subDevices) :
                  ~RegisteredFor(listing[h].subDevices[k], HubClasses))
      => /\ exc = ""
         /\ \A h \in 1..Len(hubs) :
               /\ IsHubRole(hubs[h])
               /\ \A k \in 1..Len(hubs[h].subdevices) : IsSubDeviceRole(hubs[h].subdevices[k])

====
